---- MODULE Spec2Model ----
(***************************************************************************)
(* FareFirst MCP flight-search adapter (app/api/mcp/route.ts, flightApi.ts *)
(* and flightUtils.ts).  The model keeps the two process-wide variables of *)
(* route.ts (searchCache, pendingSession), the search_flights handler, the *)
(* airport resolver and the fetch/extract/sort/render pipeline.            *)
(*                                                                         *)
(* Text is a sequence of one-character strings, so that toUpperCase, trim  *)
(* and includes are computed character by character.                       *)
(***************************************************************************)
EXTENDS Integers, Sequences, FiniteSets, TLC

VARIABLES
  searchCache,     \* route.ts:33  CacheEntry | null
  pendingSession,  \* route.ts:34  PendingSession | null
  last,            \* history: the last request handled, what it called, what it answered
  probe,           \* a pure function under test: its inputs and its result
  inflight         \* the requests between two of their awaits, and what they raced on

vars == <<searchCache, pendingSession, last, probe, inflight>>

----------------------------------------------------------------------------
(* Strings *)

\* JavaScript undefined, for a string-valued slot
Undefined == <<"undefined">>

\* JavaScript undefined, for an entity identifier
NoEntity == "undefined"

\* the upper-case letter of each lower-case letter
UpperOf ==
  [a |-> "A", b |-> "B", c |-> "C", d |-> "D", e |-> "E", f |-> "F", g |-> "G",
   h |-> "H", i |-> "I", j |-> "J", k |-> "K", l |-> "L", m |-> "M", n |-> "N",
   o |-> "O", p |-> "P", q |-> "Q", r |-> "R", s |-> "S", t |-> "T", u |-> "U",
   v |-> "V", w |-> "W", x |-> "X", y |-> "Y", z |-> "Z"]

toUpperChar(c) == IF c \in DOMAIN UpperOf THEN UpperOf[c] ELSE c

\* String.prototype.toUpperCase
toUpperCase(s) == [i \in 1..Len(s) |-> toUpperChar(s[i])]

RECURSIVE trimStart(_)
trimStart(s) ==
  IF s # <<>> /\ Head(s) = " " THEN trimStart(Tail(s)) ELSE s

RECURSIVE trimEnd(_)
trimEnd(s) ==
  IF s # <<>> /\ s[Len(s)] = " " THEN trimEnd(SubSeq(s, 1, Len(s) - 1)) ELSE s

\* String.prototype.trim
trim(s) == trimEnd(trimStart(s))

\* String.prototype.includes
includes(s, q) ==
  \E i \in 0..(Len(s) - Len(q)) : SubSeq(s, i + 1, i + Len(q)) = q

\* the characters of a text glued into one TLA+ string (a table key)
RECURSIVE Glue(_)
Glue(s) == IF s = <<>> THEN "" ELSE Head(s) \o Glue(Tail(s))

----------------------------------------------------------------------------
(* Airport suggestions (flightApi.ts:8-15) *)

PLACE_TYPE_AIRPORT == "PLACE_TYPE_AIRPORT"
PLACE_TYPE_CITY == "PLACE_TYPE_CITY"

AirportSuggestion(entityId, iataCode, name, type) ==
  [entityId |-> entityId, iataCode |-> iataCode, name |-> name, type |-> type]

\* Goa Dabolim, Goa Mopa, Genoa; the city of Goa (which carries the code of
\* its main airport) and the city of Genoa (no code)
GOI == AirportSuggestion("e1", <<"G","O","I">>, <<"G","o","a"," ","D">>, PLACE_TYPE_AIRPORT)
GOX == AirportSuggestion("e2", <<"G","O","X">>, <<"G","o","a"," ","M">>, PLACE_TYPE_AIRPORT)
GOA == AirportSuggestion("e3", <<"G","O","A">>, <<"G","e","n","o","a">>, PLACE_TYPE_AIRPORT)
GoaCity == AirportSuggestion("e4", <<"G","O","I">>, <<"G","o","a">>, PLACE_TYPE_CITY)
GenoaCity == AirportSuggestion("e5", Undefined, <<"G","e","n","o","a">>, PLACE_TYPE_CITY)

Places == {GOI, GOX, GOA, GoaCity, GenoaCity}

----------------------------------------------------------------------------
(* Airport resolver (flightApi.ts:92-202) *)

\* What the autosuggest endpoint does with one call: the call fails on the
\* network, answers with a non-success status, answers with a body that does
\* not parse, or answers with a list of places.
AutosuggestReply(kind, places) == [kind |-> kind, places |-> places]

\* no call was made
NoReply == AutosuggestReply("none", <<>>)

fetchAirportSuggestions(reply) ==
  IF reply.kind = "ok" THEN reply.places ELSE <<>>

RECURSIVE dedupSeen(_, _)
dedupSeen(places, seen) ==
  IF places = <<>> THEN <<>>
  ELSE IF Head(places).entityId \in seen
    THEN dedupSeen(Tail(places), seen)
    ELSE <<Head(places)>> \o dedupSeen(Tail(places), seen \cup {Head(places).entityId})

\* deduplicateByEntityId keeping every place
keepDuplicates(places) == places

\* flightApi.ts:193-202
deduplicateByEntityId(places) == dedupSeen(places, {})

notCity(p) == p.type # PLACE_TYPE_CITY

\* Array.prototype.find: the first of the indices that have the property
\* (0: none)
FirstIndex(hits) ==
  IF hits = {} THEN 0 ELSE CHOOSE i \in hits : \A j \in hits : i <= j

NotFound == [status |-> "not_found"]
Resolved(p) == [status |-> "resolved", airport |-> p]
Ambiguous(l) == [status |-> "ambiguous", airports |-> l]
\* Promise.resolve(null): the side was not sent to the resolver
NoResult == [status |-> "null"]

\* flightApi.ts:158-162: the test of the exact-IATA rule, q the trimmed,
\* upper-cased search term
exactIata(p, q) ==
  p.iataCode # Undefined /\ toUpperCase(p.iataCode) = q /\ p.type = PLACE_TYPE_AIRPORT

\* resolvePlaces with the ambiguity rule tried before the exact-IATA rule
resolvePlacesAmbiguityFirst(allPlaces, exactIataMatch, airportOnlyPlaces) ==
  IF Len(allPlaces) = 0 THEN NotFound
  ELSE IF Len(allPlaces) = 1 THEN Resolved(allPlaces[1])
  ELSE IF Len(airportOnlyPlaces) > 1 THEN Ambiguous(airportOnlyPlaces)
  ELSE IF exactIataMatch # 0 THEN Resolved(allPlaces[exactIataMatch])
  ELSE IF Len(airportOnlyPlaces) = 1 THEN Resolved(airportOnlyPlaces[1])
  ELSE Resolved(allPlaces[1])

\* flightApi.ts:147-190: the decision, given the suggestions, the index of
\* the exact IATA match (0: none) and the deduplicated non-city places
resolvePlaces(allPlaces, exactIataMatch, airportOnlyPlaces) ==
  IF Len(allPlaces) = 0 THEN NotFound
  ELSE IF Len(allPlaces) = 1 THEN Resolved(allPlaces[1])
  ELSE IF exactIataMatch # 0 THEN Resolved(allPlaces[exactIataMatch])
  ELSE IF Len(airportOnlyPlaces) = 1 THEN Resolved(airportOnlyPlaces[1])
  ELSE IF Len(airportOnlyPlaces) > 1 THEN Ambiguous(airportOnlyPlaces)
  ELSE Resolved(allPlaces[1])

resolveAmong(searchTerm, allPlaces) ==
  resolvePlaces(allPlaces,
                FirstIndex({i \in 1..Len(allPlaces) :
                              exactIata(allPlaces[i], toUpperCase(trim(searchTerm)))}),
                deduplicateByEntityId(SelectSeq(allPlaces, notCity)))

\* flightApi.ts:141-191
resolveAirportWithLogic(searchTerm, reply) ==
  resolveAmong(searchTerm, fetchAirportSuggestions(reply))

----------------------------------------------------------------------------
(* Follow-up matching (route.ts:71-84) *)

NoMatch == [found |-> FALSE]
Match(c) == [found |-> TRUE, place |-> c]

\* matchFromCandidates comparing the input as typed, without upper-casing it
matchFromCandidatesAsTyped(input, candidates) ==
  LET q == trim(input)
      hit(c) == \/ toUpperCase(c.iataCode) = q
                \/ toUpperCase(c.name) = q
                \/ includes(toUpperCase(c.name), q)
      i == FirstIndex({k \in 1..Len(candidates) : hit(candidates[k])})
  IN IF i = 0 THEN NoMatch ELSE Match(candidates[i])

\* route.ts:71-84
matchFromCandidates(input, candidates) ==
  LET q == toUpperCase(trim(input))
      hit(c) == \/ toUpperCase(c.iataCode) = q
                \/ toUpperCase(c.name) = q
                \/ includes(toUpperCase(c.name), q)
      i == FirstIndex({k \in 1..Len(candidates) : hit(candidates[k])})
  IN IF i = 0 THEN NoMatch ELSE Match(candidates[i])

----------------------------------------------------------------------------
(* Currency tables *)

\* flightApi.ts:46-84
COUNTRY_CURRENCY ==
  [IN |-> "INR", US |-> "USD", GB |-> "GBP", AE |-> "AED", AU |-> "AUD",
   CA |-> "CAD", SG |-> "SGD", EU |-> "EUR", DE |-> "EUR", FR |-> "EUR",
   IT |-> "EUR", ES |-> "EUR", NL |-> "EUR", JP |-> "JPY", CN |-> "CNY",
   HK |-> "HKD", MY |-> "MYR", TH |-> "THB", NZ |-> "NZD", ZA |-> "ZAR",
   CH |-> "CHF", SE |-> "SEK", NO |-> "NOK", DK |-> "DKK", PL |-> "PLN",
   MX |-> "MXN", BR |-> "BRL", AR |-> "ARS", NG |-> "NGN", KE |-> "KES",
   PH |-> "PHP", ID |-> "IDR", VN |-> "VND", PK |-> "PKR", BD |-> "BDT",
   LK |-> "LKR", NP |-> "NPR"]

\* flightApi.ts:86-90
getCurrencyForCountry(userCountry) ==
  LET k == Glue(toUpperCase(userCountry))
  IN IF k \in DOMAIN COUNTRY_CURRENCY THEN COUNTRY_CURRENCY[k] ELSE "USD"

\* flightUtils.ts:60-70
COUNTRY_TO_CURRENCY ==
  [IN |-> "INR", US |-> "USD", GB |-> "GBP", AE |-> "AED", AU |-> "AUD",
   CA |-> "CAD", SG |-> "SGD", JP |-> "JPY", CN |-> "CNY"]

\* flightUtils.ts:72-75
getCurrencyFromCountry(userCountry) ==
  IF userCountry = Undefined \/ userCountry = <<>> THEN "USD"
  ELSE LET k == Glue(toUpperCase(userCountry))
       IN IF k \in DOMAIN COUNTRY_TO_CURRENCY THEN COUNTRY_TO_CURRENCY[k] ELSE "USD"

\* flightUtils.ts:47-58
CURRENCY_SYMBOL ==
  [INR |-> "Rs", USD |-> "$", GBP |-> "GBP-sign", EUR |-> "EUR-sign",
   AED |-> "AED", AUD |-> "A$", CAD |-> "C$", SGD |-> "S$",
   JPY |-> "Yen", CNY |-> "Yen"]

\* flightUtils.ts:77-85: thousandths to units, no decimals
formatPrice(milliAmount, currency) ==
  [symbol |-> IF currency \in DOMAIN CURRENCY_SYMBOL
                THEN CURRENCY_SYMBOL[currency] ELSE currency \o " ",
   amount |-> (milliAmount + 500) \div 1000]

----------------------------------------------------------------------------
(* Flight summaries: fallback, extraction, sorting (flightApi.ts, flightUtils.ts) *)

FlightSummary(tripType, airline, from, to, priceRaw, stopCount, layovers, layover, deeplink) ==
  [tripType |-> tripType, airline |-> airline, from |-> from, to |-> to,
   priceRaw |-> priceRaw, stopCount |-> stopCount, layovers |-> layovers,
   layover |-> layover, deeplink |-> deeplink]

\* flightApi.ts:243-277
fallbackFlights(from, to) ==
  << FlightSummary("Nonstop", "IndiGo", from, to, 3500, 0, <<>>,
                   "undefined", "https://farefirst.com"),
     FlightSummary("One Stop", "Air India", from, to, 4000, 1, <<>>,
                   "6h 25m layover in DEL", "https://farefirst.com") >>

\* flightUtils.ts:41-45: the two numbers of `${hours}h ${mins}m`.
\* Math.floor rounds down; the remainder has the sign of minutes.
formatDuration(minutes) ==
  [h |-> minutes \div 60,
   m |-> IF minutes >= 0 THEN minutes % 60 ELSE 0 - ((0 - minutes) % 60)]

\* The reply of the flight-search endpoint to one call.  kind: the call
\* fails on the network, answers with a non-success status, or answers with
\* a body; the body has or lacks content.results and sessionToken.
\* results: the entries of the itineraries mapping in the order received,
\* each with its key, its leg references and its pricing options; legs by
\* identifier, each with its place codes, its stop
\* count and its segments in order.
SearchReply(kind, hasResults, sessionToken, itineraries, legs) ==
  [kind |-> kind, hasResults |-> hasResults, sessionToken |-> sessionToken,
   itineraries |-> itineraries, legs |-> legs]

PRICE_UNIT_MILLI == "PRICE_UNIT_MILLI"

\* flightUtils.ts:150 slice(0, 10)
MaxItineraries == 10

\* layoversOf with an entry for every adjacent pair of segment references
RECURSIVE layoversOfEveryPair(_, _)
layoversOfEveryPair(segs, i) ==
  IF i >= Len(segs) THEN <<>>
  ELSE <<[city |-> IF segs[i].destIata = Undefined
                     THEN <<"U","n","k","n","o","w","n">> ELSE segs[i].destIata,
          gap |-> "none"]>> \o layoversOfEveryPair(segs, i + 1)

\* flightUtils.ts:194-241: the layover entries of one leg
RECURSIVE layoversOf(_, _)
layoversOf(segs, i) ==
  IF i >= Len(segs) THEN <<>>
  ELSE LET firstSeg == segs[i]
           nextSeg == segs[i + 1]
           rest == layoversOf(segs, i + 1)
       IN IF firstSeg.missing \/ nextSeg.missing THEN rest
          ELSE LET layoverCity == IF firstSeg.destIata = Undefined
                                    THEN <<"U","n","k","n","o","w","n">>
                                    ELSE firstSeg.destIata
                   arr == firstSeg.arrival
                   dep == nextSeg.departure
               IN IF ~arr.present \/ ~dep.present
                    THEN <<[city |-> layoverCity, gap |-> "none"]>> \o rest
                  ELSE IF ~arr.numeric \/ ~dep.numeric \/ dep.minutes - arr.minutes <= 0
                    THEN <<[city |-> layoverCity, gap |-> "none"]>> \o rest
                  ELSE <<[city |-> layoverCity,
                          gap |-> formatDuration(dep.minutes - arr.minutes)]>> \o rest

\* priceRawOf taking the first pricing option in thousandths, wherever it is
priceRawOfFirstMilli(pricingOptions) ==
  LET milli == {i \in 1..Len(pricingOptions) :
                  /\ pricingOptions[i].amount >= 0
                  /\ pricingOptions[i].unit = PRICE_UNIT_MILLI}
  IN IF milli = {} THEN 0
     ELSE pricingOptions[CHOOSE i \in milli : \A j \in milli : i <= j].amount

\* flightUtils.ts:160-167.  amount: the number the amount string stands for,
\* negative when the option has no amount.
priceRawOf(pricingOptions) ==
  IF /\ pricingOptions # <<>>
     /\ pricingOptions[1].amount >= 0
     /\ pricingOptions[1].unit = PRICE_UNIT_MILLI
    THEN pricingOptions[1].amount ELSE 0

\* flightUtils.ts:152-258: the summary of one itinerary, or none
summaryOf(itinerary, legs, from, to) ==
  IF itinerary.legIds = <<>> THEN <<>>
  ELSE IF itinerary.legIds[1] \notin DOMAIN legs THEN <<>>
  ELSE LET leg == legs[itinerary.legIds[1]]
           hasOption == itinerary.pricingOptions # <<>>
           priceRaw == priceRawOf(itinerary.pricingOptions)
           originCode == IF leg.originIata = Undefined THEN from ELSE leg.originIata
           destCode == IF leg.destIata = Undefined THEN to ELSE leg.destIata
           stopCount == leg.stopCount
           layovers == IF stopCount > 0 /\ Len(leg.segments) > 1
                         THEN layoversOf(leg.segments, 1) ELSE <<>>
       IN << FlightSummary(IF stopCount = 0 THEN "Nonstop" ELSE "One Stop",
                           leg.airline, originCode, destCode, priceRaw,
                           stopCount, layovers, "undefined",
                           IF hasOption THEN itinerary.pricingOptions[1].deepLink
                           ELSE "undefined") >>

RECURSIVE extractFrom(_, _, _, _)
extractFrom(itineraries, legs, from, to) ==
  IF itineraries = <<>> THEN <<>>
  ELSE summaryOf(Head(itineraries), legs, from, to)
         \o extractFrom(Tail(itineraries), legs, from, to)

\* A key of the itineraries mapping: an integer index ("0", "17") or any
\* other string.
IndexKey(n) == [isIndex |-> TRUE, index |-> n, name |-> ""]
NameKey(s) == [isIndex |-> FALSE, index |-> 0, name |-> s]

\* flightUtils.ts:150 Object.keys: the integer-index keys in ascending
\* numeric order, then the other keys in the order they were added
objectKeys(entries) ==
  LET n == Len(entries)
      indexed == {i \in 1..n : entries[i].id.isIndex}
      rank(i) == IF entries[i].id.isIndex
                   THEN Cardinality({j \in indexed :
                                       entries[j].id.index < entries[i].id.index})
                   ELSE Cardinality(indexed)
                          + Cardinality({j \in (1..n) \ indexed : j < i})
  IN [r \in 1..n |-> entries[CHOOSE i \in 1..n : rank(i) = r - 1]]

\* flightUtils.ts:137-264
extractData(searchData, from, to) ==
  LET n == IF Len(searchData.itineraries) < MaxItineraries
             THEN Len(searchData.itineraries) ELSE MaxItineraries
  IN extractFrom(SubSeq(objectKeys(searchData.itineraries), 1, n),
                 searchData.legs, from, to)

\* Array.prototype.sort with (a, b) => a.priceRaw - b.priceRaw: stable
RECURSIVE insertByPrice(_, _)
insertByPrice(f, sorted) ==
  IF sorted = <<>> THEN <<f>>
  ELSE IF f.priceRaw < Head(sorted).priceRaw THEN <<f>> \o sorted
  ELSE <<Head(sorted)>> \o insertByPrice(f, Tail(sorted))

RECURSIVE sortByPrice(_)
sortByPrice(flights) ==
  IF flights = <<>> THEN <<>>
  ELSE insertByPrice(flights[Len(flights)],
                     sortByPrice(SubSeq(flights, 1, Len(flights) - 1)))

isDirect(f) == f.stopCount = 0
hasStops(f) == f.stopCount > 0

\* sortFlights as one sort of the whole list by price
sortFlightsAllByPrice(flights) == sortByPrice(flights)

\* flightUtils.ts:266-272
sortFlights(flights) ==
  SelectSeq(flights, isDirect) \o sortByPrice(SelectSeq(flights, hasStops))

\* flightApi.ts:310-338: why the call to the flight-search endpoint throws
failureOf(reply) ==
  IF reply.kind = "network" THEN "network"
  ELSE IF reply.kind # "ok" THEN "http"
  ELSE IF ~reply.hasResults THEN "no_results"
  ELSE IF ~reply.sessionToken THEN "no_token"
  ELSE "ok"

\* fetchFlights without the check of the session token
fetchFlightsUnchecked(from, to, fromEntityId, toEntityId, reply) ==
  IF failureOf(reply) \notin {"ok", "no_token"}
    THEN [flights |-> fallbackFlights(from, to),
          fromEntityId |-> NoEntity, toEntityId |-> NoEntity]
    ELSE [flights |-> extractData(reply, from, to),
          fromEntityId |-> fromEntityId, toEntityId |-> toEntityId]

\* flightApi.ts:279-352.  The result's entity identifiers are those of the
\* request on success and absent on the fallback path.
fetchFlights(from, to, fromEntityId, toEntityId, reply) ==
  IF failureOf(reply) # "ok"
    THEN [flights |-> fallbackFlights(from, to),
          fromEntityId |-> NoEntity, toEntityId |-> NoEntity]
    ELSE [flights |-> extractData(reply, from, to),
          fromEntityId |-> fromEntityId, toEntityId |-> toEntityId]

----------------------------------------------------------------------------
(* Rendering (flightUtils.ts:87-135, 324-410) *)

\* flightUtils.ts:87-135: every deep link is replaced by the shortener's
\* answer, or kept when the shortener fails; a flight without a deep link
\* gets none
attachShortLinks(flights, shortOk) ==
  [i \in 1..Len(flights) |->
     [flights[i] EXCEPT !.deeplink =
        IF @ = "undefined" THEN "undefined"
        ELSE IF shortOk THEN "short:" \o @ ELSE @]]

\* flightUtils.ts:381-410
renderFlightRow(flight, currency) ==
  [airline |-> flight.airline,
   stops |-> IF flight.stopCount = 0 THEN <<0, <<>> >>
             ELSE <<flight.stopCount, flight.layovers>>,
   price |-> formatPrice(flight.priceRaw, currency),
   book |-> IF flight.deeplink = "undefined" THEN "N/A" ELSE flight.deeplink]

\* flightUtils.ts:324-379
formatFlightsAsMarkdown(flights, from, to, date, adults, children, userCountry, shortOk) ==
  LET currency == getCurrencyFromCountry(userCountry)
      flightsWithShortLinks == attachShortLinks(flights, shortOk)
      directFlights == SelectSeq(flightsWithShortLinks, isDirect)
      stopFlights == sortByPrice(SelectSeq(flightsWithShortLinks, hasStops))
  IN [kind |-> "markdown",
      heading |-> <<from, to, date>>,
      direct |-> [i \in 1..Len(directFlights) |-> renderFlightRow(directFlights[i], currency)],
      stops |-> [i \in 1..Len(stopFlights) |-> renderFlightRow(stopFlights[i], currency)],
      viewAll |-> <<from, date, to, adults, children>>]

\* route.ts:86-95
buildAmbiguousBlock(label, term, airports) ==
  [label |-> label, term |-> term, airports |-> airports]

----------------------------------------------------------------------------
(* Process state (route.ts:11-34) *)

NullCache == [isNull |-> TRUE]
CacheEntry(key, result, markdown) ==
  [isNull |-> FALSE, key |-> key, result |-> result, markdown |-> markdown]

\* AirportSuggestion[] | null
NullCandidates == [isNull |-> TRUE, list |-> <<>>]
Candidates(l) == [isNull |-> FALSE, list |-> l]

NullSession == [isNull |-> TRUE]

\* makeCacheKey without the toUpperCase of route.ts:55
makeCacheKeyAsTyped(from, to, isoDate, adults, children, cabinClass, userCountry) ==
  LET field(x) == IF x = Undefined THEN <<>> ELSE x
  IN <<field(from), field(to), isoDate, adults, children,
       field(cabinClass), field(userCountry)>>

\* route.ts:36-56.  Array.prototype.join writes undefined as the empty
\* string; the joined text is kept as the tuple of its upper-cased fields.
makeCacheKey(from, to, isoDate, adults, children, cabinClass, userCountry) ==
  LET field(x) == IF x = Undefined THEN <<>> ELSE toUpperCase(x)
  IN <<field(from), field(to), isoDate, adults, children,
       field(cabinClass), field(userCountry)>>

----------------------------------------------------------------------------
(* runSearch (route.ts:397-484) *)

\* what runSearch did: the cache it leaves, the text it answers, whether
\* the cache was hit, its calls to the flight-search endpoint and how the
\* endpoint answered, and the flights fetchFlights returned
SearchOutcome(cache, text, hit, searchCalls, upstream, flights) ==
  [cache |-> cache, text |-> text, hit |-> hit, searchCalls |-> searchCalls,
   upstream |-> upstream, fallback |-> upstream \notin {"ok", "none"},
   flights |-> flights]

\* route.ts:479-483
storeAndAnswer(cacheKey, result, markdown, upstream) ==
  SearchOutcome(CacheEntry(cacheKey, result, markdown), markdown, FALSE, 1,
                upstream, result.flights)

\* route.ts:451-477
renderResult(cache, p, cacheKey, result, flights, upstream, shortOk) ==
  IF Len(flights) = 0
    THEN SearchOutcome(cache,
                       [kind |-> "no_flights", from |-> p.from, to |-> p.to,
                        date |-> p.date, adults |-> p.adults, children |-> p.children],
                       FALSE, 1, upstream, result.flights)
    ELSE storeAndAnswer(cacheKey, result,
                        formatFlightsAsMarkdown(flights, p.from, p.to, p.date,
                                                p.adults, p.children, p.userCountry, shortOk),
                        upstream)

\* searchAttempts sending the request again after a failure
searchAttemptsRetrying(reply) == IF failureOf(reply) = "ok" THEN 1 ELSE 2

\* flightApi.ts:310-351: the requests one call of fetchFlights sends to the
\* flight-search endpoint: one fetch, and the catch returns the fallback
searchAttempts(reply) == 1

\* the outcome with the requests that were sent to the endpoint
counted(o, n) == [o EXCEPT !.searchCalls = n]

\* route.ts:430-448
lookupOrFetch(cache, p, cacheKey, reply, shortOk) ==
  IF ~cache.isNull /\ cache.key = cacheKey
    THEN SearchOutcome(cache, cache.markdown, TRUE, 0, "none", <<>>)
    ELSE counted(renderResult(cache, p, cacheKey,
                              fetchFlights(p.from, p.to, p.fromEntityId,
                                           p.toEntityId, reply),
                              sortFlights(fetchFlights(p.from, p.to, p.fromEntityId,
                                                       p.toEntityId, reply).flights),
                              failureOf(reply), shortOk),
                 searchAttempts(reply))

\* p: the arguments of runSearch; reply, shortOk: what the flight-search
\* endpoint and the link shortener do if they are called
runSearch(cache, p, reply, shortOk) ==
  lookupOrFetch(cache, p,
                makeCacheKey(p.from, p.to, p.date, p.adults, p.children,
                             p.cabinClass, p.userCountry),
                reply, shortOk)

----------------------------------------------------------------------------
(* POST (route.ts:105-395) *)

CABIN_CLASS_ECONOMY ==
  <<"C","A","B","I","N","_","C","L","A","S","S","_","E","C","O","N","O","M","Y">>

\* an absent numeric argument
NoNumber == 0 - 1

\* an absent date argument; dates are day numbers
NoDate == 0

\* a date argument that new Date() cannot parse: an Invalid Date
MalformedDate == 0 - 1

\* route.ts:58-60
mcpResponse(id, result) == [jsonrpc |-> "2.0", id |-> id, result |-> result]

textContent(text) == [content |-> <<[type |-> "text", text |-> text]>>]

\* route.ts:223-225.  new Date(isoDate) is midnight UTC of the date; today
\* is local midnight of the server's clock.  Instants are hours since the
\* epoch (UTC); tz is the local offset from UTC in hours.  An Invalid Date
\* compares false with every date.
localDay(nowUtc, tz) == (nowUtc + tz) \div 24
todayMidnight(nowUtc, tz) == localDay(nowUtc, tz) * 24 - tz
\* isPastDate comparing against the day the clock shows in UTC
isPastDateUtc(isoDate, nowUtc, tz) ==
  isoDate # MalformedDate /\ isoDate * 24 < (nowUtc \div 24) * 24
isPastDate(isoDate, nowUtc, tz) ==
  isoDate # MalformedDate /\ isoDate * 24 < todayMidnight(nowUtc, tz)

\* what the pending session holds for one side
sessionCandidates(session, side) ==
  IF session.isNull THEN NullCandidates
  ELSE IF side = "from" THEN session.fromCandidates ELSE session.toCandidates

sessionEntityId(session, side) ==
  IF session.isNull THEN NoEntity
  ELSE IF side = "from" THEN session.resolvedFromEntityId ELSE session.resolvedToEntityId

sessionIata(session, side) ==
  IF session.isNull THEN Undefined
  ELSE IF side = "from" THEN session.resolvedFromIata ELSE session.resolvedToIata

\* one side's resolution so far
SideState(entityId, iata, candidates, needsAutosuggest) ==
  [entityId |-> entityId, iata |-> iata, candidates |-> candidates,
   needsAutosuggest |-> needsAutosuggest]

\* route.ts:247-255 (origin) and 266-274 (destination)
afterMatch(entityId, iata, sessCandidates, match) ==
  IF match.found
    THEN SideState(match.place.entityId, match.place.iataCode, NullCandidates, FALSE)
    ELSE SideState(entityId, iata, sessCandidates, TRUE)

\* route.ts:240-258 (origin) and 260-277 (destination): one side's
\* resolution from the pending session, before any autosuggest
sideFromSession(entityId, iata, sessCandidates, hasSession, input) ==
  IF ~sessCandidates.isNull
    THEN afterMatch(entityId, iata, sessCandidates,
                    matchFromCandidates(input, sessCandidates.list))
    ELSE SideState(entityId, iata, NullCandidates, ~hasSession)

resolveFromSession(session, side, input, raw) ==
  sideFromSession(sessionEntityId(session, side),
                  IF sessionIata(session, side) = Undefined
                    THEN raw ELSE sessionIata(session, side),
                  sessionCandidates(session, side), ~session.isNull, input)

\* route.ts:289-296 (origin) and 308-315 (destination): one side after its
\* autosuggest result, when that result is not not_found
applyResult(s, result) ==
  IF result.status = "resolved"
    THEN [s EXCEPT !.entityId = result.airport.entityId,
                   !.iata = result.airport.iataCode,
                   !.candidates = NullCandidates]
  ELSE IF result.status = "ambiguous"
    THEN [s EXCEPT !.candidates = Candidates(result.airports)]
  ELSE s

\* route.ts:329-343
PendingSession(from, to, date, adults, children, cabinClass, userCountry, f, t) ==
  [isNull |-> FALSE, from |-> from, to |-> to, date |-> date,
   adults |-> adults, children |-> children, cabinClass |-> cabinClass,
   userCountry |-> userCountry,
   fromCandidates |-> f.candidates, toCandidates |-> t.candidates,
   resolvedFromEntityId |-> f.entityId, resolvedFromIata |-> f.iata,
   resolvedToEntityId |-> t.entityId, resolvedToIata |-> t.iata]

\* route.ts:345-358
ambiguityPrompt(fromInput, toInput, f, t) ==
  [kind |-> "ambiguous",
   blocks |->
     (IF f.candidates.isNull THEN <<>>
      ELSE <<buildAmbiguousBlock("origin", fromInput, f.candidates.list)>>)
     \o
     (IF t.candidates.isNull THEN <<>>
      ELSE <<buildAmbiguousBlock("destination", toInput, t.candidates.list)>>)]

\* route.ts:368-379
SearchParams(from, to, date, adults, children, cabinClass, fromEntityId, toEntityId, userCountry) ==
  [from |-> from, to |-> to, date |-> date, adults |-> adults,
   children |-> children, cabinClass |-> cabinClass,
   fromEntityId |-> fromEntityId, toEntityId |-> toEntityId,
   userCountry |-> userCountry]

NoSearch == [from |-> Undefined]

\* The record of a handled request: the request, the clock it saw, the
\* calls it made to the collaborators and the answer it gave.
Trace(method, id, args) ==
  [method |-> method, id |-> id, args |-> args, localDay |-> 0,
   outcome |-> "none", status |-> 200, body |-> mcpResponse(id, [none |-> TRUE]),
   fromCalls |-> 0, toCalls |-> 0,
   fromInput |-> Undefined, toInput |-> Undefined,
   originReply |-> NoReply, destReply |-> NoReply,
   originResult |-> NoResult, destResult |-> NoResult,
   ran |-> FALSE, search |-> NoSearch, searchCalls |-> 0, upstream |-> "none",
   hit |-> FALSE, fallback |-> FALSE, fetched |-> <<>>]

falsy(x) == x = Undefined \/ x = <<>>

\* a handler's effect: the process state it leaves and the request's record
Answer(cache, session, tr, outcome, text) ==
  [cache |-> cache, session |-> session,
   trace |-> [tr EXCEPT !.outcome = outcome,
                        !.body = mcpResponse(tr.id, textContent(text))]]

\* completeSearch without route.ts:367: the pending session is kept
completeSearchKeeping(session, tr, p, r) ==
  [cache |-> r.cache, session |-> session,
   trace |-> [tr EXCEPT !.outcome = "search",
                        !.body = mcpResponse(tr.id, textContent(r.text)),
                        !.ran = TRUE, !.search = p,
                        !.searchCalls = r.searchCalls, !.upstream = r.upstream,
                        !.hit = r.hit, !.fallback = r.fallback,
                        !.fetched = r.flights]]

\* route.ts:367-379: both airports are resolved; the pending session is
\* cleared and the search has run with outcome r
completeSearch(session, tr, p, r) ==
  [cache |-> r.cache, session |-> NullSession,
   trace |-> [tr EXCEPT !.outcome = "search",
                        !.body = mcpResponse(tr.id, textContent(r.text)),
                        !.ran = TRUE, !.search = p,
                        !.searchCalls = r.searchCalls, !.upstream = r.upstream,
                        !.hit = r.hit, !.fallback = r.fallback,
                        !.fetched = r.flights]]

executeSearch(cache, session, tr, p, searchReply, shortOk) ==
  completeSearch(session, tr, p, runSearch(cache, p, searchReply, shortOk))

\* route.ts:328-379: a side left with candidates stores the pending session
\* and asks; otherwise the search executes.  d: the call's arguments with
\* defaults applied; f, t: the two sides.
storeOrSearch(cache, session, tr, d, f, t, searchReply, shortOk) ==
  IF ~f.candidates.isNull \/ ~t.candidates.isNull
    THEN Answer(cache,
                PendingSession(d.from, d.to, d.date, d.adults, d.children,
                               d.cabinClass, d.userCountry, f, t),
                tr, "ambiguous", ambiguityPrompt(d.fromInput, d.toInput, f, t))
    ELSE executeSearch(cache, session, tr,
                       SearchParams(f.iata, t.iata, d.date, d.adults, d.children,
                                    d.cabinClass, f.entityId, t.entityId, d.userCountry),
                       searchReply, shortOk)

\* applyResults without the not_found branches of route.ts:296-305, 315-324
applyResultsLenient(cache, session, tr, d, f, t, originResult, destResult, searchReply, shortOk) ==
  storeOrSearch(cache, session, tr, d, applyResult(f, originResult),
                applyResult(t, destResult), searchReply, shortOk)

\* route.ts:289-326
applyResults(cache, session, tr, d, f, t, originResult, destResult, searchReply, shortOk) ==
  IF originResult.status = "not_found"
    THEN Answer(cache, session, tr, "origin_not_found",
                [kind |-> "origin_not_found", term |-> d.fromInput])
  ELSE IF destResult.status = "not_found"
    THEN Answer(cache, session, tr, "dest_not_found",
                [kind |-> "dest_not_found", term |-> d.toInput])
  ELSE storeOrSearch(cache, session, tr, d, applyResult(f, originResult),
                     applyResult(t, destResult), searchReply, shortOk)

\* the request's record after the two resolver calls of Promise.all
resolverCalls(tr, f, t, originReply, destReply, originResult, destResult) ==
  [tr EXCEPT !.fromCalls = IF f.needsAutosuggest THEN 1 ELSE 0,
             !.toCalls = IF t.needsAutosuggest THEN 1 ELSE 0,
             !.originReply = IF f.needsAutosuggest THEN originReply ELSE NoReply,
             !.destReply = IF t.needsAutosuggest THEN destReply ELSE NoReply,
             !.originResult = originResult, !.destResult = destResult]

\* route.ts:279-326: the results of Promise.all, recorded and applied
recordAndApply(cache, session, tr, d, f, t, originReply, destReply, originResult, destResult, searchReply, shortOk) ==
  applyResults(cache, session,
               resolverCalls(tr, f, t, originReply, destReply, originResult, destResult),
               d, f, t, originResult, destResult, searchReply, shortOk)

\* route.ts:279-287
autosuggest(cache, session, tr, d, f, t, originReply, destReply, searchReply, shortOk) ==
  recordAndApply(cache, session, tr, d, f, t, originReply, destReply,
                 IF f.needsAutosuggest
                   THEN resolveAirportWithLogic(d.fromInput, originReply) ELSE NoResult,
                 IF t.needsAutosuggest
                   THEN resolveAirportWithLogic(d.toInput, destReply) ELSE NoResult,
                 searchReply, shortOk)

\* route.ts:236-277
resolveSides(cache, session, tr, d, originReply, destReply, searchReply, shortOk) ==
  autosuggest(cache, session,
              [tr EXCEPT !.fromInput = d.fromInput, !.toInput = d.toInput],
              d,
              resolveFromSession(session, "from", d.fromInput, d.from),
              resolveFromSession(session, "to", d.toInput, d.to),
              originReply, destReply, searchReply, shortOk)

\* route.ts:197-209, 237-238: the arguments with their defaults, and the
\* input of each side
withDefaults(a) ==
  [from |-> a.from, to |-> a.to, date |-> a.date,
   adults |-> IF a.adults = NoNumber THEN 1 ELSE a.adults,
   children |-> IF a.children = NoNumber THEN 0 ELSE a.children,
   cabinClass |-> IF a.cabinClass = Undefined THEN CABIN_CLASS_ECONOMY ELSE a.cabinClass,
   userCountry |-> IF a.userCountry = Undefined THEN <<"U","S">> ELSE a.userCountry,
   fromInput |-> IF a.selectedFromIata = Undefined THEN a.from ELSE a.selectedFromIata,
   toInput |-> IF a.selectedToIata = Undefined THEN a.to ELSE a.selectedToIata]

\* route.ts:211-234: the argument and date checks
rejects(a, nowUtc, tz) ==
  IF falsy(a.from) \/ falsy(a.to) \/ a.date = NoDate THEN "missing"
  ELSE IF isPastDate(a.date, nowUtc, tz) THEN "past"
  ELSE "no"

\* the record of a search_flights request as it starts, with the local day
\* the server's clock shows
started(id, a, nowUtc, tz) ==
  [Trace("tools/call", id, a) EXCEPT !.localDay = localDay(nowUtc, tz)]

\* route.ts:196-380: tools/call of search_flights.  a: the call's arguments;
\* nowUtc, tz: the server's clock; originReply, destReply, searchReply,
\* shortOk: what each collaborator does if the handler calls it.
searchFlights(cache, session, id, a, nowUtc, tz, originReply, destReply, searchReply, shortOk) ==
  IF rejects(a, nowUtc, tz) = "missing"
    THEN Answer(cache, session, started(id, a, nowUtc, tz), "missing", [kind |-> "missing"])
  ELSE IF rejects(a, nowUtc, tz) = "past"
    THEN Answer(cache, session, started(id, a, nowUtc, tz),
                "past", [kind |-> "past", date |-> a.date])
  ELSE resolveSides(cache, session, started(id, a, nowUtc, tz),
                    withDefaults(a), originReply, destReply, searchReply, shortOk)

NoArgs == [from |-> Undefined]

\* otherMethod with initialize starting the process state afresh
otherMethodResetting(cache, session, id, method) ==
  LET tr == Trace(method, id, NoArgs)
  IN IF method = "initialize"
       THEN [cache |-> NullCache, session |-> NullSession,
             trace |-> [tr EXCEPT !.outcome = "initialize",
                                  !.body = mcpResponse(id, [protocolVersion |-> "2024-11-05"])]]
     ELSE IF method = "notifications/initialized"
       THEN [cache |-> cache, session |-> session,
             trace |-> [tr EXCEPT !.outcome = "initialized", !.status = 204,
                                  !.body = [jsonrpc |-> "none"]]]
     ELSE IF method = "tools/list"
       THEN [cache |-> cache, session |-> session,
             trace |-> [tr EXCEPT !.outcome = "tools",
                                  !.body = mcpResponse(id, [tools |-> <<"search_flights">>])]]
     ELSE IF method = "invalid json"
       THEN [cache |-> cache, session |-> session,
             trace |-> [tr EXCEPT !.outcome = "internal_error",
                                  !.body = mcpResponse("null",
                                     [error |-> [code |-> -32603,
                                                 message |-> "Internal server error"]])]]
     ELSE [cache |-> cache, session |-> session,
           trace |-> [tr EXCEPT !.outcome = "method_not_found",
                                !.body = mcpResponse(id,
                                   [error |-> [code |-> -32601,
                                               message |-> "Method not found"]])]]

\* route.ts:105-195, 382-394: every other request
otherMethod(cache, session, id, method) ==
  LET tr == Trace(method, id, NoArgs)
  IN IF method = "initialize"
       THEN [cache |-> cache, session |-> session,
             trace |-> [tr EXCEPT !.outcome = "initialize",
                                  !.body = mcpResponse(id, [protocolVersion |-> "2024-11-05"])]]
     ELSE IF method = "notifications/initialized"
       THEN [cache |-> cache, session |-> session,
             trace |-> [tr EXCEPT !.outcome = "initialized", !.status = 204,
                                  !.body = [jsonrpc |-> "none"]]]
     ELSE IF method = "tools/list"
       THEN [cache |-> cache, session |-> session,
             trace |-> [tr EXCEPT !.outcome = "tools",
                                  !.body = mcpResponse(id, [tools |-> <<"search_flights">>])]]
     ELSE IF method = "invalid json"
       THEN [cache |-> cache, session |-> session,
             trace |-> [tr EXCEPT !.outcome = "internal_error",
                                  !.body = mcpResponse("null",
                                     [error |-> [code |-> -32603,
                                                 message |-> "Internal server error"]])]]
     ELSE [cache |-> cache, session |-> session,
           trace |-> [tr EXCEPT !.outcome = "method_not_found",
                                !.body = mcpResponse(id,
                                   [error |-> [code |-> -32601,
                                               message |-> "Method not found"]])]]

----------------------------------------------------------------------------
(* The requests and the collaborators' answers the model draws from *)

\* the day the server's clock shows in UTC; travel dates lie around it
Today == 10

\* how far ahead of Today a travel date lies, at most
MaxAhead == 1

\* the largest number of adults a request names
MaxAdults == 2

RequestIds == {"1"}

\* a server clock: hour of the day in UTC and offset of local time in hours
Clock(hour, tz) == [nowUtc |-> Today * 24 + hour, tz |-> tz]
Noon == Clock(12, 0)

Arguments(from, to, date, adults, selectedFromIata, selectedToIata, userCountry) ==
  [from |-> from, to |-> to, date |-> date, adults |-> adults,
   children |-> NoNumber, cabinClass |-> Undefined,
   selectedFromIata |-> selectedFromIata, selectedToIata |-> selectedToIata,
   userCountry |-> userCountry]

ArgumentsOver(Froms, Tos, Ds, As, SelFroms, SelTos, Countries) ==
  { Arguments(f, t, d, n, sf, st, c) :
      f \in Froms, t \in Tos, d \in Ds, n \in As, sf \in SelFroms,
      st \in SelTos, c \in Countries }

tGo == <<"g","o">>
tGoa == <<"G","O","A">>
tGox == <<" ","g","o","x">>
tXy == <<"x","y">>
India == <<"I","N">>

NetworkDown == AutosuggestReply("network", <<>>)
BadStatus == AutosuggestReply("http", <<>>)
BadBody == AutosuggestReply("parse", <<>>)
Suggest(places) == AutosuggestReply("ok", places)

Instant(present, numeric, minutes) ==
  [present |-> present, numeric |-> numeric, minutes |-> minutes]

Segment(destIata, arrival, departure) ==
  [missing |-> FALSE, destIata |-> destIata, arrival |-> arrival, departure |-> departure]

Leg(originIata, destIata, airline, stopCount, segments) ==
  [originIata |-> originIata, destIata |-> destIata, airline |-> airline,
   stopCount |-> stopCount, segments |-> segments]

Itinerary(id, legIds, pricingOptions) ==
  [id |-> id, legIds |-> legIds, pricingOptions |-> pricingOptions]

PricingOption(amount, unit, deepLink) == [amount |-> amount, unit |-> unit, deepLink |-> deepLink]

SampleLegs ==
  [direct |-> Leg(Undefined, Undefined, "IndiGo", 0, <<>>),
   oneStop |-> Leg(<<"G","O","I">>, Undefined, "Air India", 1,
                   << Segment(<<"D","E","L">>, Instant(TRUE, TRUE, 600), Instant(TRUE, TRUE, 480)),
                      Segment(Undefined, Instant(TRUE, TRUE, 900), Instant(TRUE, TRUE, 700)) >>)]

SearchDown == SearchReply("network", FALSE, FALSE, <<>>, <<>>)
SearchBadStatus == SearchReply("http", FALSE, FALSE, <<>>, <<>>)
SearchNoResults == SearchReply("ok", FALSE, TRUE, <<>>, <<>>)
SearchNoToken == SearchReply("ok", TRUE, FALSE, <<>>, <<>>)
SearchEmpty == SearchReply("ok", TRUE, TRUE, <<>>, <<>>)
SearchTwo ==
  SearchReply("ok", TRUE, TRUE,
              << Itinerary(NameKey("it-1"), <<"oneStop">>, <<PricingOption(5000, PRICE_UNIT_MILLI, "https://a")>>),
                 Itinerary(NameKey("it-2"), <<"direct">>, <<PricingOption(9000, PRICE_UNIT_MILLI, "https://b")>>) >>,
              SampleLegs)

Methods == {"initialize", "notifications/initialized", "tools/list", "invalid json", "resources/list"}

----------------------------------------------------------------------------
(* Actions *)

\* the requests the server handles at a time
Slots == {1, 2}

IdleSlot == [pc |-> "idle"]

\* no request in flight.  started: the requests begun so far, numbered in
\* the order they began; cacheBy: the number of the request that wrote the
\* cache entry (0: none); lostUpdate: a request wrote pendingSession over a
\* session stored after it had read the slot; staleWrite: a request wrote
\* the cache over the entry of a request that began after it.
NoRequests ==
  [slots |-> [r \in Slots |-> IdleSlot], started |-> 0, cacheBy |-> 0,
   lostUpdate |-> FALSE, staleWrite |-> FALSE]

Init ==
  /\ searchCache = NullCache
  /\ pendingSession = NullSession
  /\ last = Trace("none", "null", NoArgs)
  /\ inflight = NoRequests
  /\ probe = [fn |-> "none"]

\* whether the handler sends this side to the resolver
asks(session, a, nowUtc, tz, side) ==
  /\ rejects(a, nowUtc, tz) = "no"
  /\ resolveFromSession(session, side,
                        IF side = "from" THEN withDefaults(a).fromInput
                        ELSE withDefaults(a).toInput,
                        IF side = "from" THEN a.from ELSE a.to).needsAutosuggest

\* One search_flights request, handled to its answer.  A collaborator that
\* the handler does not call has no answer to choose.
SearchFlightsOver(Args, Clocks, OriginReplies, DestReplies, Replies, Shorts) ==
  \E id \in RequestIds, a \in Args, clock \in Clocks :
    \E originReply \in IF asks(pendingSession, a, clock.nowUtc, clock.tz, "from")
                         THEN OriginReplies ELSE {NetworkDown},
       destReply \in IF asks(pendingSession, a, clock.nowUtc, clock.tz, "to")
                       THEN DestReplies ELSE {NetworkDown} :
      \E dry \in {searchFlights(searchCache, pendingSession, id, a, clock.nowUtc, clock.tz,
                                originReply, destReply, SearchDown, FALSE)} :
        \E searchReply \in IF dry.trace.searchCalls = 1 THEN Replies ELSE {SearchDown},
           shortOk \in IF dry.trace.searchCalls = 1 THEN Shorts ELSE {FALSE} :
          \E out \in {IF dry.trace.searchCalls = 1
                        THEN searchFlights(searchCache, pendingSession, id, a,
                                           clock.nowUtc, clock.tz,
                                           originReply, destReply, searchReply, shortOk)
                        ELSE dry} :
            /\ searchCache' = out.cache
            /\ pendingSession' = out.session
            /\ last' = out.trace
            /\ UNCHANGED <<probe, inflight>>

OtherRequest ==
  \E id \in RequestIds, method \in Methods :
    \E out \in {otherMethod(searchCache, pendingSession, id, method)} :
      /\ searchCache' = out.cache
      /\ pendingSession' = out.session
      /\ last' = out.trace
      /\ UNCHANGED <<probe, inflight>>

\* The answer has been sent: the record of the request is dropped.
Idle ==
  /\ last.method # "none"
  /\ last' = Trace("none", "null", NoArgs)
  /\ UNCHANGED <<searchCache, pendingSession, probe, inflight>>

----------------------------------------------------------------------------
(* Spec: airport disambiguation across requests, one request at a time *)

MainArgs ==
  ArgumentsOver({tGo, tGoa}, {tGoa}, {Today + MaxAhead}, {NoNumber},
                {Undefined, tGox, tGoa, tXy}, {Undefined, tGox, tXy}, {India})
  \cup ArgumentsOver({Undefined}, {tGoa}, {Today}, {NoNumber}, {Undefined}, {Undefined}, {India})
  \cup ArgumentsOver({tGo}, {tGoa}, {Today - 1}, {NoNumber}, {Undefined}, {Undefined}, {India})

MainOriginReplies ==
  { NetworkDown, Suggest(<<GOA>>), Suggest(<<GoaCity, GOI, GOX>>), Suggest(<<GOI, GOX, GOA>>) }

MainDestReplies ==
  { BadStatus, BadBody, Suggest(<<GOA>>), Suggest(<<GoaCity, GOI, GOX>>) }

SearchFlights ==
  /\ last.method = "none"
  /\ SearchFlightsOver(MainArgs, {Noon}, MainOriginReplies, MainDestReplies,
                       {SearchDown, SearchEmpty, SearchTwo}, {TRUE})

Protocol ==
  /\ last.method = "none"
  /\ OtherRequest

Next == SearchFlights \/ Protocol \/ Idle

Spec == Init /\ [][Next]_vars

----------------------------------------------------------------------------
(* SpecCache: repeated searches against the cache, request after request, *)
(* with every way the flight-search endpoint answers or fails             *)

india == <<"i","n">>

CacheArgs ==
  ArgumentsOver({tGoa}, {tGox}, {Today + MaxAhead}, {NoNumber} \cup 2..MaxAdults,
                {Undefined}, {Undefined}, {India, india})

CacheSearch ==
  SearchFlightsOver(CacheArgs, {Noon},
                    {Suggest(<<GOA>>), Suggest(<<GOI>>)}, {Suggest(<<GOX>>)},
                    {SearchDown, SearchBadStatus, SearchNoResults, SearchNoToken,
                     SearchEmpty, SearchTwo},
                    BOOLEAN)

NextCache == CacheSearch \/ OtherRequest

SpecCache == Init /\ [][NextCache]_vars

----------------------------------------------------------------------------
(* SpecClock: travel dates around today under several server clocks *)

Clocks == { Clock(1, 0), Clock(1, -12), Clock(23, -12), Clock(23, 14) }

ClockArgs ==
  ArgumentsOver({tGo}, {tGoa}, (Today - 1)..(Today + MaxAhead), {NoNumber},
                {Undefined, tGox}, {Undefined}, {India})

ClockSearch ==
  /\ last.method = "none"
  /\ SearchFlightsOver(ClockArgs, Clocks,
                       {Suggest(<<GOA>>), Suggest(<<GoaCity, GOI, GOX>>)},
                       {Suggest(<<GOA>>)}, {SearchDown, SearchTwo}, {TRUE})

NextClock == ClockSearch \/ Idle

SpecClock == Init /\ [][NextClock]_vars

----------------------------------------------------------------------------
(* SpecResolve: the airport resolver on every list of suggestions up to a *)
(* length, for several search terms                                       *)

\* the longest list of suggestions the autosuggest endpoint answers with
MaxSuggestions == 3

RECURSIVE ListsUpTo(_, _)
ListsUpTo(S, n) ==
  IF n = 0 THEN {<<>>}
  ELSE ListsUpTo(S, n - 1)
         \cup {Append(l, x) : l \in {m \in ListsUpTo(S, n - 1) : Len(m) = n - 1}, x \in S}

ResolveTerms == {tGo, tGoa, tGox}

InitResolve ==
  /\ searchCache = NullCache
  /\ pendingSession = NullSession
  /\ last = Trace("none", "null", NoArgs)
  /\ inflight = NoRequests
  /\ probe \in {[fn |-> "input", term |-> t, places |-> l] :
                  t \in ResolveTerms, l \in ListsUpTo(Places, MaxSuggestions)}

Resolve ==
  /\ probe.fn = "input"
  /\ probe' = [fn |-> "resolveAirportWithLogic", term |-> probe.term,
               places |-> probe.places,
               out |-> resolveAirportWithLogic(probe.term, Suggest(probe.places))]
  /\ UNCHANGED <<searchCache, pendingSession, last, inflight>>

NextResolve == Resolve

SpecResolve == InitResolve /\ [][NextResolve]_vars

----------------------------------------------------------------------------
(* SpecSort: sortFlights on every list of flights up to a length *)

\* the longest list of flights sorted
MaxFlights == 4

SortStops == {0, 1, 2}
SortPrices == {100, 500, 900}

SortFlightsDomain ==
  { FlightSummary(IF n = 0 THEN "Nonstop" ELSE "One Stop", "IndiGo", tGoa, tGox,
                  p, n, <<>>, "undefined", "https://a") :
      n \in SortStops, p \in SortPrices }

InitSort ==
  /\ searchCache = NullCache
  /\ pendingSession = NullSession
  /\ last = Trace("none", "null", NoArgs)
  /\ inflight = NoRequests
  /\ probe \in {[fn |-> "input", flights |-> l] :
                  l \in ListsUpTo(SortFlightsDomain, MaxFlights)}

Sort ==
  /\ probe.fn = "input"
  /\ probe' = [fn |-> "sortFlights", flights |-> probe.flights,
               out |-> sortFlights(probe.flights)]
  /\ UNCHANGED <<searchCache, pendingSession, last, inflight>>

NextSort == Sort

SpecSort == InitSort /\ [][NextSort]_vars

----------------------------------------------------------------------------
(* SpecExtract: extractData on payloads of up to a number of itineraries, *)
(* some under integer keys, one with a leg that does not resolve          *)

\* the most itinerary entries in a payload
MaxEntries == 12

\* the i-th entry received: its price tells the entries apart
entryAt(i, n, indexAt, skipAt) ==
  Itinerary(IF i \in indexAt THEN IndexKey(n - i) ELSE NameKey("it"),
            IF i = skipAt THEN <<"gone">> ELSE <<"direct">>,
            <<PricingOption(i * 1000, PRICE_UNIT_MILLI, "https://a")>>)

payload(n, indexAt, skipAt) ==
  SearchReply("ok", TRUE, TRUE,
              [i \in 1..n |-> entryAt(i, n, indexAt, skipAt)], SampleLegs)

\* at most two entries under integer keys, received in descending key order
IndexPlacings(n) ==
  {{}} \cup {{i} : i \in 1..n} \cup {{i, n} : i \in 1..n}

InitExtract ==
  /\ searchCache = NullCache
  /\ pendingSession = NullSession
  /\ last = Trace("none", "null", NoArgs)
  /\ inflight = NoRequests
  /\ probe \in {[fn |-> "input", searchData |-> payload(n, indexAt, skipAt)] :
                  n \in {m \in 0..MaxEntries : m = 0 \/ m >= MaxEntries - 4},
                  indexAt \in IndexPlacings(MaxEntries),
                  skipAt \in 0..MaxEntries}

Extract ==
  /\ probe.fn = "input"
  /\ probe' = [fn |-> "extractData", searchData |-> probe.searchData,
               out |-> extractData(probe.searchData, tGoa, tGox)]
  /\ UNCHANGED <<searchCache, pendingSession, last, inflight>>

NextExtract == Extract

SpecExtract == InitExtract /\ [][NextExtract]_vars

----------------------------------------------------------------------------
(* SpecLegs: extractData on one itinerary whose leg has any stop count and *)
(* any list of segment references up to a length                          *)

\* the most segment references of a leg, and the largest stop count
MaxSegments == 3
MaxStopCount == 2

\* a segment reference that does not resolve in the segments mapping
MissingSegment ==
  [missing |-> TRUE, destIata |-> Undefined,
   arrival |-> Instant(FALSE, FALSE, 0), departure |-> Instant(FALSE, FALSE, 0)]

SegmentKinds ==
  { Segment(<<"D","E","L">>, Instant(TRUE, TRUE, 600), Instant(TRUE, TRUE, 480)),
    Segment(Undefined, Instant(TRUE, TRUE, 900), Instant(TRUE, TRUE, 700)),
    Segment(<<"B","O","M">>, Instant(FALSE, FALSE, 0), Instant(TRUE, FALSE, 0)),
    Segment(<<"B","L","R">>, Instant(TRUE, TRUE, 1000), Instant(TRUE, TRUE, 600)),
    MissingSegment }

legPayload(stopCount, segments) ==
  SearchReply("ok", TRUE, TRUE,
              << Itinerary(NameKey("it-1"), <<"leg">>,
                           <<PricingOption(5000, PRICE_UNIT_MILLI, "https://a")>>) >>,
              [leg |-> Leg(<<"G","O","I">>, Undefined, "Air India", stopCount, segments)])

InitLegs ==
  /\ searchCache = NullCache
  /\ pendingSession = NullSession
  /\ last = Trace("none", "null", NoArgs)
  /\ inflight = NoRequests
  /\ probe \in {[fn |-> "input", searchData |-> legPayload(n, l)] :
                  n \in 0..MaxStopCount, l \in ListsUpTo(SegmentKinds, MaxSegments)}

ExtractLeg ==
  /\ probe.fn = "input"
  /\ probe' = [fn |-> "extractData", searchData |-> probe.searchData,
               out |-> extractData(probe.searchData, tGoa, tGox)]
  /\ UNCHANGED <<searchCache, pendingSession, last, inflight>>

NextLegs == ExtractLeg

SpecLegs == InitLegs /\ [][NextLegs]_vars

----------------------------------------------------------------------------
(* SpecValidate: calls with absent or empty airports, absent or malformed *)
(* dates                                                                  *)

ValidateArgs ==
  ArgumentsOver({Undefined, <<>>, tGo}, {Undefined, tGoa},
                {NoDate, MalformedDate, Today + MaxAhead}, {NoNumber},
                {Undefined, tGox}, {Undefined}, {India})

ValidateSearch ==
  /\ last.method = "none"
  /\ SearchFlightsOver(ValidateArgs, {Noon},
                       {NetworkDown, Suggest(<<GoaCity, GOI, GOX>>)},
                       {Suggest(<<GOA>>)}, {SearchDown, SearchTwo}, {TRUE})

NextValidate == ValidateSearch \/ Idle

SpecValidate == Init /\ [][NextValidate]_vars

----------------------------------------------------------------------------
(* SpecRace: search_flights requests interleaved at their awaits.  A      *)
(* request runs from one await to the next without interruption: up to    *)
(* Promise.all of the resolver calls (route.ts:280), from there up to     *)
(* fetchFlights (route.ts:436), from there up to formatFlightsAsMarkdown  *)
(* (route.ts:467), and from there to its answer.                          *)

\* the requests begun in one run
MaxRequests == 3

RaceArgs ==
  ArgumentsOver({tGo}, {tGoa}, {Today + 1}, {NoNumber, 2},
                {Undefined, tGox}, {Undefined}, {India})

RaceOriginReplies == {Suggest(<<GOA>>), Suggest(<<GoaCity, GOI, GOX>>)}
RaceDestReplies == {Suggest(<<GOX>>)}
RaceSearchReplies == {SearchTwo}

\* the assignment with a check that the slot still holds what was read
storeSessionIfUnread(current, snapshot, value) ==
  IF current = snapshot THEN value ELSE current

\* route.ts:329-343, 367: the assignment to pendingSession.  current: what
\* the slot holds; snapshot: what the request read at route.ts:236
storeSession(current, snapshot, value) == value

\* the write as an update of the stored entry's text, keeping its key
writeEntryInPlace(current, entry) ==
  IF current.isNull THEN entry ELSE [current EXCEPT !.markdown = entry.markdown]

\* route.ts:479: searchCache = { key: cacheKey, result, markdown }, the
\* three of them locals of the request.  current: what the slot holds
writeEntry(current, entry) == entry

InFlight(pc, ticket, session, out) ==
  [pc |-> pc, ticket |-> ticket, session |-> session, out |-> out]

\* route.ts:289-379, 420-436: request r, with the pending session it read,
\* runs from the resolver results up to its answer or up to the call of the
\* flight search.  The endpoint's answer to that call is drawn here.
settle(r, ticket, begun, a, session) ==
  \E originReply \in IF asks(session, a, Noon.nowUtc, Noon.tz, "from")
                       THEN RaceOriginReplies ELSE {NetworkDown},
     destReply \in IF asks(session, a, Noon.nowUtc, Noon.tz, "to")
                     THEN RaceDestReplies ELSE {NetworkDown},
     searchReply \in RaceSearchReplies :
    \E out \in {searchFlights(searchCache, session, "1", a, Noon.nowUtc, Noon.tz,
                              originReply, destReply, searchReply, TRUE)} :
      \E writes \in {out.trace.outcome \in {"ambiguous", "search"}},
         waits \in {out.trace.outcome = "search" /\ ~out.trace.hit} :
        /\ pendingSession' = IF writes
                               THEN storeSession(pendingSession, session, out.session)
                               ELSE pendingSession
        /\ inflight' =
             [inflight EXCEPT
                !.started = begun,
                !.lostUpdate = @ \/ ( /\ writes /\ ~pendingSession.isNull
                                      /\ pendingSession # session ),
                !.slots[r] = IF waits THEN InFlight("fetching", ticket, session, out)
                             ELSE IdleSlot]
        /\ last' = IF waits THEN last ELSE out.trace
        /\ UNCHANGED <<searchCache, probe>>

\* route.ts:196-287: request r begins: it reads pendingSession and either
\* awaits the resolver or goes on without an await.  A request takes the
\* first free slot.
Begin(r) ==
  /\ inflight.slots[r].pc = "idle"
  /\ \A q \in Slots : q < r => inflight.slots[q].pc # "idle"
  /\ inflight.started < MaxRequests
  /\ \E a \in RaceArgs :
       IF asks(pendingSession, a, Noon.nowUtc, Noon.tz, "from")
            \/ asks(pendingSession, a, Noon.nowUtc, Noon.tz, "to")
         THEN /\ inflight' =
                   [inflight EXCEPT
                      !.started = @ + 1,
                      !.slots[r] = InFlight("resolving", inflight.started + 1,
                                            pendingSession, [args |-> a])]
              /\ UNCHANGED <<searchCache, pendingSession, last, probe>>
         ELSE settle(r, inflight.started + 1, inflight.started + 1, a, pendingSession)

\* route.ts:280-287 returns
ResolverReturns(r) ==
  /\ inflight.slots[r].pc = "resolving"
  /\ settle(r, inflight.slots[r].ticket, inflight.started,
            inflight.slots[r].out.args, inflight.slots[r].session)

\* route.ts:436-465: fetchFlights returns; without flights the request
\* answers, with flights it awaits the rendering
FetchReturns(r) ==
  /\ inflight.slots[r].pc = "fetching"
  /\ IF inflight.slots[r].out.trace.body.result.content[1].text.kind = "markdown"
       THEN /\ inflight' = [inflight EXCEPT !.slots[r].pc = "formatting"]
            /\ UNCHANGED last
       ELSE /\ inflight' = [inflight EXCEPT !.slots[r] = IdleSlot]
            /\ last' = inflight.slots[r].out.trace
  /\ UNCHANGED <<searchCache, pendingSession, probe>>

\* route.ts:467-483: formatFlightsAsMarkdown returns; the request writes
\* the cache entry and answers
FormatReturns(r) ==
  /\ inflight.slots[r].pc = "formatting"
  /\ searchCache' = writeEntry(searchCache, inflight.slots[r].out.cache)
  /\ last' = inflight.slots[r].out.trace
  /\ inflight' =
       [inflight EXCEPT
          !.cacheBy = inflight.slots[r].ticket,
          !.staleWrite = @ \/ inflight.cacheBy > inflight.slots[r].ticket,
          !.slots[r] = IdleSlot]
  /\ UNCHANGED <<pendingSession, probe>>

Begins == \E r \in Slots : Begin(r)
Resolves == \E r \in Slots : ResolverReturns(r)
Fetches == \E r \in Slots : FetchReturns(r)
Formats == \E r \in Slots : FormatReturns(r)

NextRace == Begins \/ Resolves \/ Fetches \/ Formats

SpecRace == Init /\ [][NextRace]_vars

----------------------------------------------------------------------------
(* SpecPrice: extractData on one itinerary with any list of pricing *)
(* options up to a length                                            *)

\* the most pricing options of an itinerary
MaxOptions == 2

PriceAmounts == {NoNumber, 0, 5000, 7000}
PriceUnits == {PRICE_UNIT_MILLI, "PRICE_UNIT_WHOLE", "price_unit_milli", "undefined"}

PricingOptions ==
  {PricingOption(n, u, "https://a") : n \in PriceAmounts, u \in PriceUnits}

pricePayload(options) ==
  SearchReply("ok", TRUE, TRUE,
              << Itinerary(NameKey("it-1"), <<"direct">>, options) >>, SampleLegs)

InitPrice ==
  /\ searchCache = NullCache
  /\ pendingSession = NullSession
  /\ last = Trace("none", "null", NoArgs)
  /\ inflight = NoRequests
  /\ probe \in {[fn |-> "input", searchData |-> pricePayload(l)] :
                  l \in ListsUpTo(PricingOptions, MaxOptions)}

ExtractPrice ==
  /\ probe.fn = "input"
  /\ probe' = [fn |-> "extractData", searchData |-> probe.searchData,
               out |-> extractData(probe.searchData, tGoa, tGox)]
  /\ UNCHANGED <<searchCache, pendingSession, last, inflight>>

NextPrice == ExtractPrice

SpecPrice == InitPrice /\ [][NextPrice]_vars

----------------------------------------------------------------------------
(* SpecMatch: matchFromCandidates on every list of coded places up to a
   length and on follow-up inputs that are codes, name parts or blank *)

CodedPlaces == {p \in Places : p.iataCode # Undefined}

FollowUpInputs == {tGoa, tGox, tGo, tXy, <<"g","o","i">>, <<>>, <<" ">>, <<" "," ">>}

InitMatch ==
  /\ searchCache = NullCache
  /\ pendingSession = NullSession
  /\ last = Trace("none", "null", NoArgs)
  /\ inflight = NoRequests
  /\ probe \in {[fn |-> "input", input |-> q, candidates |-> l] : q \in FollowUpInputs, l \in ListsUpTo(CodedPlaces, MaxSuggestions)}

MatchCandidates ==
  /\ probe.fn = "input"
  /\ probe' = [fn |-> "matchFromCandidates", input |-> probe.input,
               candidates |-> probe.candidates,
               out |-> matchFromCandidates(probe.input, probe.candidates)]
  /\ UNCHANGED <<searchCache, pendingSession, last, inflight>>

NextMatch == MatchCandidates

SpecMatch == InitMatch /\ [][NextMatch]_vars

----------------------------------------------------------------------------
(* SpecCurrency: the currency requested and the currency rendered, for
   every two-letter country code in either case *)

CountryLetters == DOMAIN UpperOf \cup {UpperOf[c] : c \in DOMAIN UpperOf}

CountryCodes == {<<a, b>> : a \in CountryLetters, b \in CountryLetters}

\* a price of the upstream reply, in thousandths
QuotedMilli == 5000

InitCurrency ==
  /\ searchCache = NullCache
  /\ pendingSession = NullSession
  /\ last = Trace("none", "null", NoArgs)
  /\ inflight = NoRequests
  /\ probe \in {[fn |-> "input", userCountry |-> c] : c \in CountryCodes}

\* searchFlights asks for prices in getCurrencyForCountry(userCountry);
\* formatFlightsAsMarkdown renders them in getCurrencyFromCountry(userCountry)
QuoteAndRender ==
  /\ probe.fn = "input"
  /\ probe' = [fn |-> "currency", userCountry |-> probe.userCountry,
               requested |-> getCurrencyForCountry(probe.userCountry),
               rendered |-> getCurrencyFromCountry(probe.userCountry),
               price |-> formatPrice(QuotedMilli,
                                     getCurrencyFromCountry(probe.userCountry))]
  /\ UNCHANGED <<searchCache, pendingSession, last, inflight>>

NextCurrency == QuoteAndRender

SpecCurrency == InitCurrency /\ [][NextCurrency]_vars

----------------------------------------------------------------------------
(* SpecDuration: formatDuration on the minute counts around zero *)

\* the largest minute count formatted, and the smallest negated
MaxMinutes == 130

InitDuration ==
  /\ searchCache = NullCache
  /\ pendingSession = NullSession
  /\ last = Trace("none", "null", NoArgs)
  /\ inflight = NoRequests
  /\ probe \in {[fn |-> "input", minutes |-> n] : n \in (0 - MaxMinutes)..MaxMinutes}

FormatDuration ==
  /\ probe.fn = "input"
  /\ probe' = [fn |-> "formatDuration", minutes |-> probe.minutes,
               out |-> formatDuration(probe.minutes)]
  /\ UNCHANGED <<searchCache, pendingSession, last, inflight>>

NextDuration == FormatDuration

SpecDuration == InitDuration /\ [][NextDuration]_vars

----------------------------------------------------------------------------
(* SpecCandidates: requests and follow-ups whose origin autosuggest answers *)
(* with any list of suggestions up to a length                              *)

AllSuggestions == {Suggest(l) : l \in ListsUpTo(Places, MaxSuggestions)}

CandidateArgs ==
  ArgumentsOver({tGo}, {tGoa}, {Today + MaxAhead}, {NoNumber},
                {Undefined, tXy}, {Undefined}, {India})

CandidateSearch ==
  /\ last.method = "none"
  /\ SearchFlightsOver(CandidateArgs, {Noon}, AllSuggestions,
                       {Suggest(<<GOI, GoaCity, GOI, GOX>>)},
                       {SearchTwo}, {TRUE})

NextCandidates == CandidateSearch \/ Idle

SpecCandidates == Init /\ [][NextCandidates]_vars

----------------------------------------------------------------------------
(* Claims *)

isSearchCall(tr) == tr.method = "tools/call"

\* the request passed the argument and date checks and went on to resolve
\* its airports
resolves(tr) == isSearchCall(tr) /\ tr.outcome \notin {"missing", "past"}

textOf(tr) == tr.body.result.content[1].text

upper(x) == IF x = Undefined THEN x ELSE toUpperCase(x)

\* two argument records that differ at most in letter case
sameUpToCase(a, b) ==
  /\ upper(a.from) = upper(b.from)
  /\ upper(a.to) = upper(b.to)
  /\ a.date = b.date
  /\ a.adults = b.adults
  /\ a.children = b.children
  /\ upper(a.cabinClass) = upper(b.cabinClass)
  /\ upper(a.selectedFromIata) = upper(b.selectedFromIata)
  /\ upper(a.selectedToIata) = upper(b.selectedToIata)
  /\ upper(a.userCountry) = upper(b.userCountry)

\* C1 (as claimed): two successive search_flights calls with the same
\* parameters up to letter case, whose airports resolve the same way, answer
\* with the same text and invoke the flight-search endpoint at most once
\* between them, whatever the first call's outcome was.
C1_CacheIdempotence ==
  [][ ( /\ last.outcome = "search" /\ last'.outcome = "search"
        /\ sameUpToCase(last.args, last'.args)
        /\ last.originResult = last'.originResult
        /\ last.destResult = last'.destResult )
      => ( /\ textOf(last') = textOf(last)
           /\ last.searchCalls + last'.searchCalls <= 1 ) ]_vars

\* C2 (as claimed): a request whose flight search fell back to the fixed
\* flights leaves searchCache as it was before the request.
C2_FallbackLeavesCache ==
  [][ (isSearchCall(last') /\ last'.fallback) => searchCache' = searchCache ]_vars

\* C3: a search_flights call that names its airports and whose date is
\* strictly before the server's local date answers with the past-date
\* message and calls neither autosuggest nor the flight search.
C3_PastDateRejected ==
  ( /\ isSearchCall(last)
    /\ ~falsy(last.args.from) /\ ~falsy(last.args.to)
    /\ last.args.date # NoDate
    /\ last.args.date < last.localDay )
  => ( /\ last.outcome = "past"
       /\ textOf(last).kind = "past"
       /\ last.status = 200
       /\ last.fromCalls = 0 /\ last.toCalls = 0 /\ last.searchCalls = 0 )

\* a past-dated call rejected while a cache entry and a pending session are
\* held, the date being the UTC day but not the local one
C3_Witness ==
  /\ last.outcome = "past"
  /\ last.args.date = Today /\ last.localDay = Today + 1
  /\ ~searchCache.isNull
  /\ ~pendingSession.isNull

\* the call's parameters as the handler sees them, in a stored session
holdsParameters(session, tr) ==
  /\ session.from = tr.args.from
  /\ session.to = tr.args.to
  /\ session.date = tr.args.date
  /\ session.adults = (IF tr.args.adults = NoNumber THEN 1 ELSE tr.args.adults)
  /\ session.children = (IF tr.args.children = NoNumber THEN 0 ELSE tr.args.children)
  /\ session.cabinClass = (IF tr.args.cabinClass = Undefined
                             THEN CABIN_CLASS_ECONOMY ELSE tr.args.cabinClass)
  /\ session.userCountry = (IF tr.args.userCountry = Undefined
                              THEN <<"U","S">> ELSE tr.args.userCountry)

\* C4 (as claimed): a request in which the resolution of origin and/or
\* destination yields ambiguous stores a pending session with the call's
\* parameters and the candidate list of each ambiguous side, answers with
\* the ambiguity prompt and makes no flight-search call; a request that
\* calls the flight search leaves no side with a candidate list.
C4_AmbiguityStoresSession ==
  /\ ( ( /\ resolves(last)
         /\ \/ last.originResult.status = "ambiguous"
            \/ last.destResult.status = "ambiguous" )
       => ( /\ last.outcome = "ambiguous"
            /\ textOf(last).kind = "ambiguous"
            /\ last.searchCalls = 0
            /\ ~pendingSession.isNull
            /\ holdsParameters(pendingSession, last)
            /\ last.originResult.status = "ambiguous"
                 => pendingSession.fromCandidates = Candidates(last.originResult.airports)
            /\ last.destResult.status = "ambiguous"
                 => pendingSession.toCandidates = Candidates(last.destResult.airports) ) )
  /\ ( (isSearchCall(last) /\ last.searchCalls > 0) => pendingSession.isNull )

\* the candidates of a list that the input names: by IATA code, by name or
\* by a part of the name, letter case and surrounding blanks aside
hitsOf(cands, input) ==
  { i \in 1..Len(cands.list) :
      \/ toUpperCase(cands.list[i].iataCode) = toUpperCase(trim(input))
      \/ toUpperCase(cands.list[i].name) = toUpperCase(trim(input))
      \/ includes(toUpperCase(cands.list[i].name), toUpperCase(trim(input))) }

matched(cands, input) == ~cands.isNull /\ hitsOf(cands, input) # {}
unmatched(cands, input) == ~cands.isNull /\ hitsOf(cands, input) = {}

\* C5: with a pending session that holds candidates for a side, a follow-up
\* call whose input for that side names a candidate resolves the side to a
\* named candidate's entity identifier and IATA code without an autosuggest
\* call for that side; when the other side is resolved too (by the session
\* or by its own match) the flight search runs with those identifiers.
C5_FollowUpResolves ==
  [][ (resolves(last') /\ ~pendingSession.isNull) =>
      /\ matched(pendingSession.fromCandidates, last'.fromInput) =>
           /\ last'.fromCalls = 0
           /\ last'.outcome = "search" =>
                \E i \in hitsOf(pendingSession.fromCandidates, last'.fromInput) :
                  /\ last'.search.fromEntityId = pendingSession.fromCandidates.list[i].entityId
                  /\ last'.search.from = pendingSession.fromCandidates.list[i].iataCode
           /\ last'.outcome = "ambiguous" =>
                /\ pendingSession'.fromCandidates.isNull
                /\ \E i \in hitsOf(pendingSession.fromCandidates, last'.fromInput) :
                     /\ pendingSession'.resolvedFromEntityId
                          = pendingSession.fromCandidates.list[i].entityId
                     /\ pendingSession'.resolvedFromIata
                          = pendingSession.fromCandidates.list[i].iataCode
           /\ ( \/ pendingSession.toCandidates.isNull
                \/ matched(pendingSession.toCandidates, last'.toInput) )
                => last'.outcome = "search"
      /\ matched(pendingSession.toCandidates, last'.toInput) =>
           /\ last'.toCalls = 0
           /\ last'.outcome = "search" =>
                \E i \in hitsOf(pendingSession.toCandidates, last'.toInput) :
                  /\ last'.search.toEntityId = pendingSession.toCandidates.list[i].entityId
                  /\ last'.search.to = pendingSession.toCandidates.list[i].iataCode
           /\ last'.outcome = "ambiguous" =>
                /\ pendingSession'.toCandidates.isNull
                /\ \E i \in hitsOf(pendingSession.toCandidates, last'.toInput) :
                     /\ pendingSession'.resolvedToEntityId
                          = pendingSession.toCandidates.list[i].entityId
                     /\ pendingSession'.resolvedToIata
                          = pendingSession.toCandidates.list[i].iataCode
           /\ ( \/ pendingSession.fromCandidates.isNull
                \/ matched(pendingSession.fromCandidates, last'.fromInput) )
                => last'.outcome = "search" ]_vars

\* a follow-up that chose Goa Mopa by its code, typed in lower case after a
\* blank, searched with Mopa's entity identifier and called no autosuggest
C5_Witness ==
  /\ last.outcome = "search"
  /\ last.args.selectedFromIata = tGox
  /\ last.fromCalls = 0 /\ last.toCalls = 0
  /\ last.search.fromEntityId = GOX.entityId
  /\ last.search.from = GOX.iataCode

\* C6 (as claimed): a follow-up call whose input for an ambiguous side
\* names none of that side's stored candidates leaves the side's candidate
\* list in the pending session as it was and answers with the ambiguity
\* prompt listing those candidates, whatever autosuggest answers.
C6_UnmatchedKeepsCandidates ==
  [][ (resolves(last') /\ ~pendingSession.isNull) =>
      /\ unmatched(pendingSession.fromCandidates, last'.fromInput) =>
           /\ ~pendingSession'.isNull
           /\ pendingSession'.fromCandidates = pendingSession.fromCandidates
           /\ last'.outcome = "ambiguous"
           /\ \E k \in 1..Len(textOf(last').blocks) :
                /\ textOf(last').blocks[k].label = "origin"
                /\ textOf(last').blocks[k].airports = pendingSession.fromCandidates.list
      /\ unmatched(pendingSession.toCandidates, last'.toInput) =>
           /\ ~pendingSession'.isNull
           /\ pendingSession'.toCandidates = pendingSession.toCandidates
           /\ last'.outcome = "ambiguous"
           /\ \E k \in 1..Len(textOf(last').blocks) :
                /\ textOf(last').blocks[k].label = "destination"
                /\ textOf(last').blocks[k].airports = pendingSession.toCandidates.list ]_vars

\* C7 (as claimed): with a pending session, a call whose from, to or date
\* differs from the stashed ones resolves both airports afresh: it uses
\* neither the session's candidate lists nor its stashed resolutions, so
\* each side goes to autosuggest with the new call's input.
C7_RouteChangeDiscardsSession ==
  [][ ( /\ resolves(last') /\ ~pendingSession.isNull
        /\ \/ last'.args.from # pendingSession.from
           \/ last'.args.to # pendingSession.to
           \/ last'.args.date # pendingSession.date )
      => ( last'.fromCalls = 1 /\ last'.toCalls = 1 ) ]_vars

\* C8: a search_flights call that executes the search leaves
\* pendingSession null.
C8_SearchClearsSession ==
  (isSearchCall(last) /\ last.outcome = "search") => pendingSession.isNull

\* a search answered from the cache by a follow-up that the pending session
\* resolved on both sides
C8_Witness ==
  /\ last.outcome = "search"
  /\ last.hit
  /\ last.fromCalls = 0 /\ last.toCalls = 0
  /\ pendingSession.isNull

\* C9: when the flight-search call fails (network, status, missing results,
\* missing session token), fetchFlights returns two summaries for the
\* requested codes, a nonstop one and a one-stop one carrying a layover,
\* and the request answers with a text content block, not a protocol error.
C9_FailureFallback ==
  (isSearchCall(last) /\ last.upstream \in {"network", "http", "no_results", "no_token"})
  => ( /\ last.fallback
       /\ Len(last.fetched) = 2
       /\ last.fetched[1].stopCount = 0 /\ last.fetched[1].tripType = "Nonstop"
       /\ last.fetched[2].stopCount = 1 /\ last.fetched[2].layover # "undefined"
       /\ \A i \in 1..2 : /\ last.fetched[i].from = last.search.from
                          /\ last.fetched[i].to = last.search.to
       /\ last.status = 200
       /\ DOMAIN last.body.result = {"content"}
       /\ Len(last.body.result.content) = 1
       /\ last.body.result.content[1].type = "text" )

\* a reply without a session token answered from the fallback
C9_Witness ==
  /\ last.upstream = "no_token"
  /\ last.fallback
  /\ Len(last.fetched) = 2
  /\ textOf(last).kind = "markdown"

\* the entries of a list of suggestions by rule: the airports whose code is
\* the search term, and the first occurrence of each airport
exactAirports(l, term) ==
  { i \in 1..Len(l) : /\ l[i].type = PLACE_TYPE_AIRPORT
                      /\ l[i].iataCode # Undefined
                      /\ toUpperCase(l[i].iataCode) = toUpperCase(trim(term)) }

distinctAirports(l) ==
  { i \in 1..Len(l) : /\ l[i].type = PLACE_TYPE_AIRPORT
                      /\ \A j \in 1..(i - 1) : l[j].entityId # l[i].entityId }

\* C10: resolveAirportWithLogic answers not_found for no suggestion and the
\* single entry for one; otherwise an airport whose code is the trimmed
\* search term, case aside; else the one airport left after deduplication;
\* else ambiguous with the deduplicated airports; else, with no airport at
\* all, the first suggestion.
C10_ResolverOrder ==
  probe.fn = "resolveAirportWithLogic" =>
    IF Len(probe.places) = 0 THEN probe.out.status = "not_found"
    ELSE IF Len(probe.places) = 1 THEN probe.out = Resolved(probe.places[1])
    ELSE IF exactAirports(probe.places, probe.term) # {}
      THEN /\ probe.out.status = "resolved"
           /\ \E i \in exactAirports(probe.places, probe.term) :
                probe.out.airport = probe.places[i]
    ELSE IF Cardinality(distinctAirports(probe.places)) = 1
      THEN /\ probe.out.status = "resolved"
           /\ \E i \in distinctAirports(probe.places) : probe.out.airport = probe.places[i]
    ELSE IF Cardinality(distinctAirports(probe.places)) > 1
      THEN /\ probe.out.status = "ambiguous"
           /\ Len(probe.out.airports) = Cardinality(distinctAirports(probe.places))
           /\ { probe.out.airports[k] : k \in 1..Len(probe.out.airports) }
                = { probe.places[i] : i \in distinctAirports(probe.places) }
    ELSE probe.out = Resolved(probe.places[1])

\* the exact-code rule deciding among three distinct airports
C10_Witness ==
  /\ probe.fn = "resolveAirportWithLogic"
  /\ probe.term = tGoa
  /\ probe.places = <<GOI, GOX, GOA>>
  /\ probe.out = Resolved(GOA)

\* a candidate list: two entries or more, airports only, no entity
\* identifier twice
wellFormedCandidates(l) ==
  /\ Len(l) >= 2
  /\ \A i \in 1..Len(l) : l[i].type = PLACE_TYPE_AIRPORT
  /\ \A i, j \in 1..Len(l) : i < j => l[i].entityId # l[j].entityId

\* the airports of a list of suggestions at their first occurrence
firstAirports(l) ==
  { i \in 1..Len(l) :
      /\ l[i].type = PLACE_TYPE_AIRPORT
      /\ \A j \in 1..(i - 1) :
           l[j].type = PLACE_TYPE_AIRPORT => l[j].entityId # l[i].entityId }

\* out lists the distinct airports of l in the order of their first occurrence
inFirstOccurrenceOrder(out, l) ==
  /\ Len(out) = Cardinality(firstAirports(l))
  /\ \A i \in firstAirports(l) :
       out[Cardinality({j \in firstAirports(l) : j <= i})] = l[i]

ambiguousResultOk(result, reply) ==
  result.status = "ambiguous" =>
    /\ wellFormedCandidates(result.airports)
    /\ inFirstOccurrenceOrder(result.airports, reply.places)

\* C11: every ambiguous result of the resolver, and every candidate list
\* held by the pending session, has at least two entries, airports only, no
\* entity identifier twice; the result lists every distinct airport of the
\* suggestions in the order of first occurrence.
C11_AmbiguousWellFormed ==
  /\ ambiguousResultOk(last.originResult, last.originReply)
  /\ ambiguousResultOk(last.destResult, last.destReply)
  /\ ~pendingSession.isNull =>
       /\ ~pendingSession.fromCandidates.isNull
            => wellFormedCandidates(pendingSession.fromCandidates.list)
       /\ ~pendingSession.toCandidates.isNull
            => wellFormedCandidates(pendingSession.toCandidates.list)

\* suggestions with a city and a repeated airport, stored as the two
\* distinct airports in the order they first came
C11_Witness ==
  /\ last.originReply = Suggest(<<GOX, GOI, GOX>>)
  /\ last.destReply = Suggest(<<GOI, GoaCity, GOI, GOX>>)
  /\ ~pendingSession.isNull
  /\ pendingSession.fromCandidates = Candidates(<<GOX, GOI>>)
  /\ pendingSession.toCandidates = Candidates(<<GOI, GOX>>)

\* the autosuggest call failed: on the network, by its status, or by a body
\* that does not parse
failed(reply) == reply.kind \in {"network", "http", "parse"}

\* a text answer in a result, not an error
answersText(tr, kind) ==
  /\ tr.status = 200
  /\ DOMAIN tr.body = {"jsonrpc", "id", "result"}
  /\ DOMAIN tr.body.result = {"content"}
  /\ tr.body.result.content[1].type = "text"
  /\ textOf(tr).kind = kind

occurrences(l, x) == Cardinality({i \in 1..Len(l) : l[i] = x})

isPermutation(out, in) ==
  /\ Len(out) = Len(in)
  /\ \A i \in 1..Len(in) : occurrences(out, in[i]) = occurrences(in, in[i])

\* the positions of the flights without stops, ascending
directPositions(l) == {i \in 1..Len(l) : l[i].stopCount = 0}

\* the i-th smallest member of a set of positions
nthPosition(P, i) == CHOOSE p \in P : Cardinality({q \in P : q < p}) = i - 1

\* C13: sortFlights returns a permutation of its input: first the flights
\* without stops in their original relative order, then the flights with
\* stops in non-decreasing raw price; no flight without stops comes after a
\* flight with stops.
C13_SortingLaw ==
  probe.fn = "sortFlights" =>
    LET in == probe.flights
        out == probe.out
        k == Cardinality(directPositions(in))
    IN /\ isPermutation(out, in)
       /\ \A i \in 1..k : out[i] = in[nthPosition(directPositions(in), i)]
       /\ \A i \in (k + 1)..Len(out) : out[i].stopCount > 0
       /\ \A i, j \in (k + 1)..Len(out) :
            i < j => out[i].priceRaw <= out[j].priceRaw
       /\ \A i, j \in 1..Len(out) :
            i < j => ~(out[i].stopCount > 0 /\ out[j].stopCount = 0)

\* a mixed list: a cheap flight with stops first, two flights without stops
\* in descending price, a cheaper flight with two stops last
C13_Witness ==
  /\ probe.fn = "sortFlights"
  /\ Len(probe.flights) = 4
  /\ <<probe.flights[1].stopCount, probe.flights[1].priceRaw>> = <<1, 500>>
  /\ <<probe.flights[2].stopCount, probe.flights[2].priceRaw>> = <<0, 900>>
  /\ <<probe.flights[3].stopCount, probe.flights[3].priceRaw>> = <<0, 100>>
  /\ <<probe.flights[4].stopCount, probe.flights[4].priceRaw>> = <<2, 100>>
  /\ probe.out = <<probe.flights[2], probe.flights[3], probe.flights[4],
                   probe.flights[1]>>

\* the positions, among the first ten entries received, of the itineraries
\* whose first leg resolves
firstTenResolved(searchData) ==
  {i \in 1..Len(searchData.itineraries) :
     /\ i <= 10
     /\ searchData.itineraries[i].legIds # <<>>
     /\ searchData.itineraries[i].legIds[1] \in DOMAIN searchData.legs}

\* C14: extractData returns at most 10 summaries, built only from the first
\* 10 itinerary entries in the order received, in that order.
C14_ExtractionCapAndOrder ==
  probe.fn = "extractData" =>
    LET in == probe.searchData
        out == probe.out
    IN /\ Len(out) <= 10
       /\ Len(out) = Cardinality(firstTenResolved(in))
       /\ \A k \in 1..Len(out) :
            out[k].priceRaw
              = in.itineraries[nthPosition(firstTenResolved(in), k)].pricingOptions[1].amount

\* the leg has more than one segment reference and each of them resolves
segmentDataPresent(leg) ==
  /\ Len(leg.segments) > 1
  /\ \A i \in 1..Len(leg.segments) : ~leg.segments[i].missing

\* C15: a flight summary with stops and segment data has as many layover
\* entries as stops; a summary without stops has no layover entry and the
\* trip type "Nonstop".
C15_SummaryInvariant ==
  probe.fn = "extractData" =>
    \A k \in 1..Len(probe.out) :
      LET f == probe.out[k]
          leg == probe.searchData.legs.leg
      IN /\ f.stopCount > 0 /\ segmentDataPresent(leg)
              => f.stopCount = Len(f.layovers)
         /\ f.stopCount = 0 => f.layovers = <<>> /\ f.tripType = "Nonstop"

\* the envelope carries a top-level error with this code and no result
errorEnvelope(body, code) ==
  /\ DOMAIN body = {"jsonrpc", "id", "error"}
  /\ body.jsonrpc = "2.0"
  /\ body.error.code = code

\* C16: an unknown method is answered with a top-level error -32601 under
\* the request's id, an exception in request handling with a top-level
\* error -32603, neither with a result member; every other answer with a
\* body carries result and no error.
C16_ErrorEnvelope ==
  last.method # "none" /\ last.status = 200 =>
    IF last.outcome = "method_not_found"
      THEN errorEnvelope(last.body, -32601) /\ last.body.id = last.id
    ELSE IF last.outcome = "internal_error"
      THEN errorEnvelope(last.body, -32603)
    ELSE DOMAIN last.body = {"jsonrpc", "id", "result"}

\* C17: a search_flights call without from, to or date, or with a date
\* that is not a date, is answered with a text message and calls neither
\* autosuggest nor the flight search.
C17_ValidationShortCircuit ==
  ( /\ isSearchCall(last)
    /\ \/ falsy(last.args.from) \/ falsy(last.args.to)
       \/ last.args.date = NoDate
       \/ last.args.date = MalformedDate )
  => ( /\ ~resolves(last)
       /\ DOMAIN last.body.result = {"content"}
       /\ last.fromCalls = 0 /\ last.toCalls = 0 /\ last.searchCalls = 0 )

keyOf(p) ==
  makeCacheKey(p.from, p.to, p.date, p.adults, p.children, p.cabinClass,
               p.userCountry)

\* two parameter tuples of runSearch that differ at most in letter case
sameSearch(p, q) ==
  /\ upper(p.from) = upper(q.from) /\ upper(p.to) = upper(q.to)
  /\ p.date = q.date /\ p.adults = q.adults /\ p.children = q.children
  /\ upper(p.cabinClass) = upper(q.cabinClass)
  /\ upper(p.userCountry) = upper(q.userCountry)

\* the request ran the search, missed the cache and rendered flights
rendered(tr) == tr.ran /\ ~tr.hit /\ textOf(tr).kind = "markdown"

\* C20: the cache holds at most one entry; a search whose parameters equal,
\* up to letter case, those of the search that wrote the entry hits it; a
\* hit answers with the stored text, calls no flight search and leaves the
\* entry unchanged; a miss that renders flights replaces the entry with
\* its key and its rendering.
C20_SingleSlotCache ==
  [][ last'.ran =>
        /\ rendered(last) /\ sameSearch(last.search, last'.search) => last'.hit
        /\ last'.hit <=> (~searchCache.isNull /\ searchCache.key = keyOf(last'.search))
        /\ last'.hit =>
             /\ textOf(last') = searchCache.markdown
             /\ last'.searchCalls = 0
             /\ searchCache' = searchCache
        /\ rendered(last') =>
             /\ searchCache'.key = keyOf(last'.search)
             /\ searchCache'.markdown = textOf(last')
             /\ DOMAIN searchCache' = {"isNull", "key", "result", "markdown"}
    ]_vars

\* a search hitting, with a lower-case market, the entry written under the
\* upper-case one
C20_Witness ==
  /\ last.hit
  /\ last.search.userCountry = india
  /\ ~searchCache.isNull
  /\ searchCache.key[7] = India
  /\ textOf(last) = searchCache.markdown

\* request r went on from its resolver results in this step
settled(r) ==
  \/ inflight.slots[r].pc = "resolving" /\ inflight'.slots[r].pc # "resolving"
  \/ inflight.slots[r].pc = "idle" /\ inflight'.slots[r].pc = "fetching"
  \/ /\ inflight.slots[r].pc = "idle" /\ inflight'.slots[r].pc = "idle"
     /\ inflight'.started > inflight.started

\* C18: the writes of interleaved requests are unconditional.  A request
\* that answers with the ambiguity prompt has stored its own session, and a
\* request that goes on to the search has cleared the slot, whatever the
\* slot held and whoever stored it; a request that rendered flights writes
\* its own entry over whatever the cache held.
C18_UnprotectedSharedState ==
  [][ \A r \in Slots :
        /\ settled(r) /\ last' # last /\ last'.outcome = "ambiguous"
             => ~pendingSession'.isNull /\ holdsParameters(pendingSession', last')
        /\ settled(r) /\ inflight'.slots[r].pc = "fetching"
             => pendingSession'.isNull
        /\ inflight.slots[r].pc = "formatting" /\ inflight'.slots[r].pc = "idle"
             => /\ searchCache' = inflight.slots[r].out.cache
                /\ searchCache'.key = keyOf(inflight.slots[r].out.trace.search)
    ]_vars

\* both races have happened: a request wrote pendingSession over a session
\* stored after it had read the slot, and the cache entry is the one of a
\* request that began before the request whose entry it replaced
C18_Witness ==
  /\ inflight.lostUpdate
  /\ inflight.staleWrite
  /\ \A r \in Slots : inflight.slots[r].pc = "idle"
  /\ ~searchCache.isNull
  /\ inflight.cacheBy < inflight.started

\* the adjacent pairs of segment references that both resolve, by the
\* position of the first
resolvedPairs(segs) ==
  {i \in 1..(Len(segs) - 1) : ~segs[i].missing /\ ~segs[i + 1].missing}

\* the gap between the arrival of one segment and the departure of the
\* next is a positive number of minutes
positiveGap(a, b) ==
  /\ a.arrival.present /\ b.departure.present
  /\ a.arrival.numeric /\ b.departure.numeric
  /\ b.departure.minutes - a.arrival.minutes > 0

\* the layover entry is the one of the pair of segments a, b
layoverOfPair(entry, a, b) ==
  /\ entry.city = (IF a.destIata = Undefined
                     THEN <<"U","n","k","n","o","w","n">> ELSE a.destIata)
  /\ IF positiveGap(a, b)
       THEN /\ DOMAIN entry.gap = {"h", "m"}
            /\ entry.gap.h * 60 + entry.gap.m
                 = b.departure.minutes - a.arrival.minutes
            /\ entry.gap.m \in 0..59
       ELSE entry.gap = "none"

\* C21: for a leg with stops and more than one segment reference,
\* extractData answers one summary whose layover entries are, in segment
\* order, one per adjacent pair of segments that both resolve: the city of
\* the first segment's destination (or "Unknown") with the formatted gap
\* when the gap is positive, the city alone otherwise.
C21_LayoverComputation ==
  ( /\ probe.fn = "extractData"
    /\ "leg" \in DOMAIN probe.searchData.legs
    /\ probe.searchData.legs.leg.stopCount > 0
    /\ Len(probe.searchData.legs.leg.segments) > 1 )
  => LET segs == probe.searchData.legs.leg.segments
     IN /\ Len(probe.out) = 1
        /\ Len(probe.out[1].layovers) = Cardinality(resolvedPairs(segs))
        /\ \A k \in 1..Len(probe.out[1].layovers) :
             layoverOfPair(probe.out[1].layovers[k],
                           segs[nthPosition(resolvedPairs(segs), k)],
                           segs[nthPosition(resolvedPairs(segs), k) + 1])

\* two stops over three segments: a positive gap after DEL and a negative
\* one after a place without code
C21_Witness ==
  /\ probe.fn = "extractData"
  /\ "leg" \in DOMAIN probe.searchData.legs
  /\ probe.searchData.legs.leg.stopCount = 2
  /\ probe.searchData.legs.leg.segments
       = << Segment(<<"D","E","L">>, Instant(TRUE, TRUE, 600), Instant(TRUE, TRUE, 480)),
            Segment(Undefined, Instant(TRUE, TRUE, 900), Instant(TRUE, TRUE, 700)),
            Segment(<<"D","E","L">>, Instant(TRUE, TRUE, 600), Instant(TRUE, TRUE, 480)) >>
  /\ Len(probe.out) = 1
  /\ Len(probe.out[1].layovers) = 2
  /\ probe.out[1].layovers[1].city = <<"D","E","L">>
  /\ probe.out[1].layovers[1].gap = [h |-> 1, m |-> 40]
  /\ probe.out[1].layovers[2].city = <<"U","n","k","n","o","w","n">>
  /\ probe.out[1].layovers[2].gap = "none"

\* the prices that tell the summaries, and the entries at positions P, apart
pricesOf(flights) == {flights[k].priceRaw : k \in 1..Len(flights)}
pricesAt(searchData, P) ==
  {searchData.itineraries[i].pricingOptions[1].amount : i \in P}

\* C22: among the first 10 itineraries, one whose first leg does not
\* resolve contributes no summary and every other one exactly one summary:
\* there are as many summaries as itineraries, among the first 10, with a
\* first leg that resolves, and they are the summaries of those.
C22_ItinerarySkipping ==
  probe.fn = "extractData" =>
    /\ Len(probe.out) = Cardinality(firstTenResolved(probe.searchData))
    /\ pricesOf(probe.out) = pricesAt(probe.searchData, firstTenResolved(probe.searchData))

\* C23: the summary's priceRaw is the amount of the first pricing option
\* when that option has an amount and its unit is PRICE_UNIT_MILLI, and 0
\* otherwise; a later pricing option never gives the price.
C23_PriceUnitPolicy ==
  probe.fn = "extractData" =>
    LET options == probe.searchData.itineraries[1].pricingOptions
    IN /\ Len(probe.out) = 1
       /\ probe.out[1].priceRaw
            = (IF options = <<>> THEN 0
               ELSE IF options[1].unit # "PRICE_UNIT_MILLI" THEN 0
               ELSE IF options[1].amount = NoNumber THEN 0
               ELSE options[1].amount)

\* a first option in another unit before an option in thousandths: the price
\* is 0, not the later option's amount
C23_Witness ==
  /\ probe.fn = "extractData"
  /\ probe.searchData.itineraries[1].pricingOptions
       = << PricingOption(5000, "PRICE_UNIT_WHOLE", "https://a"),
            PricingOption(7000, "PRICE_UNIT_MILLI", "https://a") >>
  /\ probe.out[1].priceRaw = 0

\* C24: formatDuration of a negative number fails with an InvalidInput
\* error and returns no string; of a non-negative integer m it returns the
\* hours m div 60 and the minutes m mod 60.
C24_FormatterGuard ==
  probe.fn = "formatDuration" =>
    IF probe.minutes < 0
      THEN DOMAIN probe.out = {"error"} /\ probe.out.error = "InvalidInput"
      ELSE probe.out = [h |-> probe.minutes \div 60, m |-> probe.minutes % 60]

\* C25: for every country code the currency requested from the upstream
\* search is the currency the prices are rendered in, so a price carries
\* the symbol of the currency it was quoted in.
C25_CurrencyConsistency ==
  probe.fn = "currency" =>
    /\ probe.requested = probe.rendered
    /\ probe.price.symbol = formatPrice(QuotedMilli, probe.requested).symbol

\* C26: for every candidate list, a follow-up input that is not blank and
\* equals, trimmed and up to letter case, the IATA code of a candidate of
\* the list makes matchFromCandidates return a candidate with that code; a
\* blank input matches no candidate.
C26_SelectionByIataCode ==
  probe.fn = "matchFromCandidates" =>
    LET q == toUpperCase(trim(probe.input))
        coded == {i \in 1..Len(probe.candidates) : toUpperCase(probe.candidates[i].iataCode) = q}
    IN /\ (q # <<>> /\ coded # {}) =>
            /\ probe.out.found
            /\ toUpperCase(probe.out.place.iataCode) = q
       /\ q = <<>> => ~probe.out.found

\* C27: under sequential search_flights calls a pending session has a
\* candidate list on at least one side, every side of it without a
\* candidate list has a defined resolved entity identifier and IATA code,
\* and every search runs with both entity identifiers defined.
C27_SessionWellFormed ==
  /\ ~pendingSession.isNull =>
       /\ ~pendingSession.fromCandidates.isNull \/ ~pendingSession.toCandidates.isNull
       /\ pendingSession.fromCandidates.isNull =>
            /\ pendingSession.resolvedFromEntityId # NoEntity
            /\ pendingSession.resolvedFromIata # Undefined
       /\ pendingSession.toCandidates.isNull =>
            /\ pendingSession.resolvedToEntityId # NoEntity
            /\ pendingSession.resolvedToIata # Undefined
  /\ last.ran =>
       /\ last.search.fromEntityId # NoEntity
       /\ last.search.toEntityId # NoEntity

\* the text is the rendering of the route, date and passengers of p
rendersParameters(text, p) ==
  /\ text.kind = "markdown"
  /\ toUpperCase(text.heading[1]) = toUpperCase(p.from)
  /\ toUpperCase(text.heading[2]) = toUpperCase(p.to)
  /\ text.heading[3] = p.date
  /\ text.viewAll[4] = p.adults
  /\ text.viewAll[5] = p.children

\* C28: under any interleaving of search_flights requests at their awaits,
\* a cache entry holds the key and the rendering of one request: the
\* rendering is the one of the route, date and passengers of its key; and a
\* request answered from the cache is answered with the rendering of its
\* own route, date and passengers.
C28_CacheEntryCoherence ==
  /\ ~searchCache.isNull =>
       rendersParameters(searchCache.markdown,
                         [from |-> searchCache.key[1], to |-> searchCache.key[2],
                          date |-> searchCache.key[3], adults |-> searchCache.key[4],
                          children |-> searchCache.key[5]])
  /\ (last.ran /\ last.hit) => rendersParameters(textOf(last), last.search)

\* three requests: one wrote its entry over the entry of a request that
\* had begun after it, and the last to answer was answered from the cache
C28_Witness ==
  /\ inflight.staleWrite
  /\ inflight.started = MaxRequests
  /\ \A r \in Slots : inflight.slots[r].pc = "idle"
  /\ last.ran /\ last.hit
  /\ ~searchCache.isNull
  /\ textOf(last) = searchCache.markdown

\* the outcomes of the requests that reach neither a stored session nor a
\* search
NonSearchingOutcomes ==
  {"initialize", "initialized", "tools", "method_not_found", "internal_error",
   "missing", "past", "origin_not_found", "dest_not_found"}

\* C29: initialize, notifications/initialized, tools/list, an unknown
\* method, a search_flights call with missing arguments or a past date, and
\* a search_flights call answered with an origin or destination not-found
\* message leave searchCache and pendingSession exactly as they were.
C29_NonSearchingFrame ==
  [][ (last' # last /\ last'.outcome \in NonSearchingOutcomes) =>
        /\ searchCache' = searchCache
        /\ pendingSession' = pendingSession ]_vars

\* a follow-up whose origin was not found, answered while a pending session
\* and a cache entry were held, and both are still held
C29_Witness ==
  /\ last.outcome = "origin_not_found"
  /\ ~pendingSession.isNull
  /\ ~searchCache.isNull

\* C30: a search_flights call that names its airports and whose date is the
\* server's current local calendar date is not rejected as past, whatever
\* the offset of the server's local clock from UTC.
C30_SameDayAccepted ==
  ( /\ isSearchCall(last)
    /\ ~falsy(last.args.from) /\ ~falsy(last.args.to)
    /\ last.args.date # NoDate
    /\ last.args.date = last.localDay )
  => last.outcome # "past"

====
